---- MODULE Spec2Model ----
(***************************************************************************)
(* rox: the single-pass bytecode compiler (src/compiler.rs) and the stack  *)
(* virtual machine (src/vm.rs).  A program (an AST, the parser's output)   *)
(* is compiled by `main` into FunctionObjects and then interpreted one     *)
(* instruction per step.  Rc<...> objects are modelled as entries of heap  *)
(* tables and referred to by their index.                                  *)
(***************************************************************************)
EXTENDS Integers, Sequences, FiniteSets, TLC

(***************************************************************************)
(* Opcodes (src/vm/chunk.rs).                                              *)
(***************************************************************************)
OP_RETURN == 0
OP_CONSTANT == 1
OP_NEGATIVE == 2
OP_ADD == 3
OP_SUBTRACT == 4
OP_MULTIPLY == 5
OP_DIVIDE == 6
OP_NULL == 7
OP_TRUE == 8
OP_FALSE == 9
OP_NOT == 10
OP_GREATER == 11
OP_LESS == 12
OP_EQUAL == 13
OP_PRINT == 14
OP_POP == 15
OP_DEFINE_GLOBAL == 16
OP_GET_GLOBAL == 17
OP_SET_GLOBAL == 18
OP_GET_LOCAL == 19
OP_SET_LOCAL == 20
OP_JUMP_IF_FALSE == 21
OP_JUMP == 22
OP_LOOP == 23
OP_CALL == 24
OP_ARRAY == 25
OP_INDEX_CALL == 26
OP_REM == 27
OP_POW == 28
OP_CLOSURE == 29
OP_CLOSE_UPVALUE == 30
OP_GET_UPVALUE == 31
OP_SET_UPVALUE == 32
OP_CLASS == 33
OP_GET_PROP == 34
OP_SET_PROP == 35
OP_METHOD == 36
OP_INVOKE == 37
OP_INHERIT == 38
OP_SUPER_INVOKE == 39
OP_GET_SUPER == 40
OP_INDEX_SET == 41
OP_CONSTANT0 == 42
OP_JUMP_IF_RANGE_END == 43
OP_COUNTUP == 44
OP_RANGE == 45

(***************************************************************************)
(* Capacities.                                                             *)
(***************************************************************************)
LOCAL_MAX == 256
UPVALUE_MAX == 32
CONSTANT_LEN == 256
STACK_LEN == 256
FRAME_MAX == 256
U16_MAX == 65535

(***************************************************************************)
(* enum Value (src/vm/value.rs).  Every value is a record with the same    *)
(* three fields: the variant t, a string payload s and an integer payload  *)
(* v (a number, a boolean as 0/1, or the index of a heap object).          *)
(***************************************************************************)
Value(t, s, v) == [t |-> t, s |-> s, v |-> v]
NullV == Value("Null", "", 0)
IntegerV(n) == Value("Integer", "", n)
\* Value::Float(f64): the floats of the model are the multiples of one half,
\* v is the number of halves.
FloatV(halves) == Value("Float", "", halves)
BooleanV(b) == Value("Boolean", "", IF b THEN 1 ELSE 0)
StringV(str) == Value("String", str, 0)
FunctionV(fid) == Value("Function", "", fid)
ClosureV(id) == Value("Closure", "", id)
NativeV(name) == Value("Native", name, 0)
ArrayV(id) == Value("Array", "", id)
ClassV(id) == Value("Class", "", id)
InstanceV(id) == Value("Instance", "", id)
BoundMethodV(id) == Value("BoundMethod", "", id)

\* Option<T>: None is the empty sequence, Some(x) is <<x>>.
None == << >>
Some(x) == << x >>
IsSome(o) == Len(o) > 0


(***************************************************************************)
(* The AST (src/compiler/ast.rs): the parser's output, the compiler's      *)
(* input.  Option<...> fields are sequences of length 0 or 1.              *)
(***************************************************************************)
Class(name, super_class, body) == [k |-> "Class", name |-> name, super_class |-> super_class, body |-> body]
For(name, range, consequence) == [k |-> "For", name |-> name, range |-> range, consequence |-> consequence]
Fun(name, params, body) == [k |-> "Fun", name |-> name, params |-> params, body |-> body]
If(condition, consequence, alternative) ==
    [k |-> "If", condition |-> condition, consequence |-> consequence, alternative |-> alternative]
Return(value) == [k |-> "Return", value |-> value]
Var(name, value) == [k |-> "Var", name |-> name, value |-> value]
While(condition, consequence) == [k |-> "While", condition |-> condition, consequence |-> consequence]
Block(stmts) == [k |-> "Block", stmts |-> stmts]
PrintStmt(expression) == [k |-> "Print", expression |-> expression]
ExpStmt(expression) == [k |-> "ExpStmt", expression |-> expression]

Identifer(name) == [k |-> "Identifer", name |-> name]
StringLiteral(value) == [k |-> "StringLiteral", value |-> value]
IntegerLiteral(value) == [k |-> "IntegerLiteral", value |-> value]
FloatLiteral(value) == [k |-> "FloatLiteral", value |-> value]
BooleanLiteral(value) == [k |-> "BooleanLiteral", value |-> value]
ArrayLiteral(value) == [k |-> "ArrayLiteral", value |-> value]
RangeLiteral(start, end) == [k |-> "RangeLiteral", start |-> start, end |-> end]
NullLiteral == [k |-> "NullLiteral"]
Prefix(ope, right) == [k |-> "Prefix", ope |-> ope, right |-> right]
Infix(ope, left, right) == [k |-> "Infix", ope |-> ope, left |-> left, right |-> right]
GetProperty(left, right) == [k |-> "GetProperty", left |-> left, right |-> right]
GetSuperProperty(right) == [k |-> "GetSuperProperty", left |-> Identifer("super"), right |-> right]
SetProperty(left, right) == [k |-> "SetProperty", left |-> left, right |-> right]
InvokeMethod(left, right, arguments) ==
    [k |-> "InvokeMethod", left |-> left, right |-> right, arguments |-> arguments]
InvokeSuperMethod(right, arguments) ==
    [k |-> "InvokeSuperMethod", left |-> Identifer("super"), right |-> right, arguments |-> arguments]
Assign(left, right) == [k |-> "Assign", ope |-> "=", left |-> left, right |-> right]
Logical(ope, left, right) == [k |-> "Logical", ope |-> ope, left |-> left, right |-> right]
FunCall(function, arguments) == [k |-> "FunCall", function |-> function, arguments |-> arguments]
IndexCall(array, index) == [k |-> "IndexCall", array |-> array, index |-> index]

(***************************************************************************)
(* The compiler (src/compiler.rs).  The compiler state c holds the stack   *)
(* of Compiler frames (frame k's `enclosing` is frame k-1), the table of   *)
(* finished FunctionObjects (the Rc<FunctionObject> constants refer to its *)
(* entries), and err: the message of the panic that aborted compilation.   *)
(* stmts / marks record, per function, where each statement's code starts  *)
(* and ends and how many locals were declared at both points; the claims   *)
(* about statements read it, the compiler does not.                        *)
(***************************************************************************)
Local(name, depth) == [name |-> name, depth |-> depth, is_captured |-> FALSE]
Upvalue(index, is_local) == [index |-> index, is_local |-> is_local]
Chunk_new == [code |-> << >>, constants |-> << >>]
FunctionObject(name, arity) == [name |-> name, arity |-> arity, chunk |-> Chunk_new, upvalue_count |-> 0]
ClassCompiler(enclosing, has_super_class) == [enclosing |-> enclosing, has_super_class |-> has_super_class]

Compiler_new(name, function_type, arity) ==
    [function |-> FunctionObject(name, arity),
     function_type |-> function_type,
     locals |-> << Local(IF function_type = "Function" THEN "" ELSE "this", 0) >>,
     upvalues |-> << >>,
     scope_depth |-> 0,
     stmts |-> << >>]

local_count(c, k) == Len(c.frames[k].locals)
get_instruction_len(c, k) == Len(c.frames[k].function.chunk.code)
get_scope_depth(c, k) == c.frames[k].scope_depth
panic(c, msg) == IF c.err = "" THEN [c EXCEPT !.err = msg] ELSE c

emit_byte(c, k, byte) == [c EXCEPT !.frames[k].function.chunk.code = Append(@, byte)]
emit_bytes(c, k, byte1, byte2) == emit_byte(emit_byte(c, k, byte1), k, byte2)

\* Chunk::add_constant: ConstantArray::push indexes a fixed array of 256.
add_constant(c, k, value) ==
    LET n == Len(c.frames[k].function.chunk.constants) IN
    IF n >= CONSTANT_LEN
    THEN [c |-> panic(c, "index out of bounds: constants"), index |-> 0]
    ELSE [c |-> [c EXCEPT !.frames[k].function.chunk.constants = Append(@, value)], index |-> n]

emit_jump(c, k, byte) ==
    LET c1 == emit_bytes(emit_byte(c, k, byte), k, 255, 255) IN
    [c |-> c1, offset |-> get_instruction_len(c1, k) - 2]

\* patch_jump measuring the jump from the operand instead of from the byte
\* after it.
patch_jump_from_operand(c, k, offset) ==
    LET jmp == get_instruction_len(c, k) - offset IN
    IF jmp > U16_MAX THEN panic(c, "Too much code to jump over")
    ELSE [c EXCEPT !.frames[k].function.chunk.code =
              [@ EXCEPT ![offset + 1] = (jmp \div 256) % 256, ![offset + 2] = jmp % 256]]

\* The callers unwrap() the Result: an Err is a panic.
patch_jump(c, k, offset) ==
    LET jmp == get_instruction_len(c, k) - offset - 2 IN
    IF jmp > U16_MAX THEN panic(c, "Too much code to jump over")
    ELSE [c EXCEPT !.frames[k].function.chunk.code =
              [@ EXCEPT ![offset + 1] = (jmp \div 256) % 256, ![offset + 2] = jmp % 256]]

emit_loop(c, k, start_loop) ==
    LET c1 == emit_byte(c, k, OP_LOOP)
        offset == get_instruction_len(c1, k) - start_loop + 2 IN
    IF offset > U16_MAX THEN panic(c1, "Too much code to jump over")
    ELSE emit_byte(emit_byte(c1, k, (offset \div 256) % 256), k, offset % 256)

begin_scope(c, k) == [c EXCEPT !.frames[k].scope_depth = @ + 1]

RECURSIVE end_scope_loop(_, _, _)
end_scope_loop(c, k, index) ==
    IF index = 0 THEN c
    ELSE LET l == c.frames[k].locals[index] IN
         IF l.depth > c.frames[k].scope_depth
         THEN LET c1 == emit_byte(c, k, IF l.is_captured THEN OP_CLOSE_UPVALUE ELSE OP_POP) IN
              end_scope_loop([c1 EXCEPT !.frames[k].locals = SubSeq(@, 1, Len(@) - 1)], k, index - 1)
         ELSE end_scope_loop(c, k, index - 1)

end_scope(c, k) ==
    end_scope_loop([c EXCEPT !.frames[k].scope_depth = @ - 1], k, local_count(c, k))

\* add_local whose search for the name does not stop at the locals of the
\* outer scope depths.
add_local_any_depth(c, k, name) ==
    LET f == c.frames[k]
        n == Len(f.locals)
        duplicate == \E i \in 1..n : f.locals[i].name = name
    IN  IF c.err # "" THEN c
        ELSE IF n >= LOCAL_MAX THEN panic(c, "add_local over upper")
        ELSE IF duplicate THEN panic(c, "duplecate identifer")
        ELSE [c EXCEPT !.frames[k].locals = Append(@, Local(name, f.scope_depth))]

\* The callers unwrap() the Result: an Err is a panic.
add_local(c, k, name) ==
    LET f == c.frames[k]
        n == Len(f.locals)
        stops(j) == f.locals[j].depth # -1 /\ f.locals[j].depth < f.scope_depth
        duplicate == \E i \in 1..n : /\ f.locals[i].name = name
                                     /\ \A j \in i..n : ~stops(j)
    IN  IF c.err # "" THEN c
        ELSE IF n >= LOCAL_MAX THEN panic(c, "add_local over upper")
        ELSE IF duplicate THEN panic(c, "duplecate identifer")
        ELSE [c EXCEPT !.frames[k].locals = Append(@, Local(name, f.scope_depth))]

\* Option<u8>: -1 is None, otherwise the 0-based index.
get_local(c, k, name) ==
    LET ls == c.frames[k].locals
        hits == {i \in 1..Len(ls) : ls[i].name = name} IN
    IF hits = {} THEN -1
    ELSE ((CHOOSE i \in hits : \A j \in hits : j <= i) - 1) % 256

\* add_upvalue that records the descriptor without counting it.
add_upvalue_uncounted(c, k, index, is_local) ==
    LET ups == c.frames[k].upvalues
        hits == {i \in 1..Len(ups) : ups[i].index = index /\ ups[i].is_local = is_local} IN
    IF hits # {}
    THEN [c |-> c, index |-> ((CHOOSE i \in hits : \A j \in hits : i <= j) - 1) % 256]
    ELSE IF Len(ups) >= UPVALUE_MAX
    THEN [c |-> panic(c, "index out of bounds: upvalues"), index |-> -1]
    ELSE [c |-> [c EXCEPT !.frames[k].upvalues = Append(@, Upvalue(index, is_local))],
          index |-> Len(ups) % 256]

add_upvalue(c, k, index, is_local) ==
    LET ups == c.frames[k].upvalues
        hits == {i \in 1..Len(ups) : ups[i].index = index /\ ups[i].is_local = is_local} IN
    IF hits # {}
    THEN [c |-> c, index |-> ((CHOOSE i \in hits : \A j \in hits : i <= j) - 1) % 256]
    ELSE IF Len(ups) >= UPVALUE_MAX
    THEN [c |-> panic(c, "index out of bounds: upvalues"), index |-> -1]
    ELSE [c |-> [c EXCEPT !.frames[k].upvalues = Append(@, Upvalue(index, is_local)),
                          !.frames[k].function.upvalue_count = @ + 1],
          index |-> Len(ups) % 256]

RECURSIVE get_upvalue(_, _, _)
get_upvalue(c, k, name) ==
    IF k = 1 THEN [c |-> c, index |-> -1]
    ELSE LET local_index == get_local(c, k - 1, name) IN
         IF local_index # -1
         THEN add_upvalue([c EXCEPT !.frames[k - 1].locals[local_index + 1].is_captured = TRUE],
                          k, local_index, TRUE)
         ELSE LET r == get_upvalue(c, k - 1, name) IN
              IF r.index # -1 THEN add_upvalue(r.c, k, r.index, FALSE)
              ELSE [c |-> r.c, index |-> -1]

\* Emit an opcode with the index that add_constant / get_upvalue returned.
emit_indexed(a, k, byte) == emit_bytes(a.c, k, byte, a.index)

\* The "namedVariable" sequence the compiler repeats: local, then upvalue,
\* then global by name.  ops = <<local op, upvalue op, global op>>.
named_upvalue(r, k, name, ops) ==
    IF r.index # -1 THEN emit_indexed(r, k, ops[2])
    ELSE emit_indexed(add_constant(r.c, k, StringV(name)), k, ops[3])

named_variable(c, k, name, ops) ==
    IF get_local(c, k, name) # -1 THEN emit_bytes(c, k, ops[1], get_local(c, k, name))
    ELSE named_upvalue(get_upvalue(c, k, name), k, name, ops)

GET_OPS == << OP_GET_LOCAL, OP_GET_UPVALUE, OP_GET_GLOBAL >>
SET_OPS == << OP_SET_LOCAL, OP_SET_UPVALUE, OP_SET_GLOBAL >>

RECURSIVE compile_exp(_, _, _)
RECURSIVE compile_exps(_, _, _, _)
RECURSIVE compile_stmt(_, _, _)
RECURSIVE compile_stmts(_, _, _, _)
RECURSIVE compile_methods(_, _, _, _)
RECURSIVE function(_, _, _, _, _, _)

\* for exp in value { compile_exp(exp) }
compile_exps(c, cc, exps, i) ==
    IF i > Len(exps) THEN c ELSE compile_exps(compile_exp(c, cc, exps[i]), cc, exps, i + 1)

infix_ops(ope) ==
    CASE ope = "+" -> << OP_ADD >>
      [] ope = "-" -> << OP_SUBTRACT >>
      [] ope = "*" -> << OP_MULTIPLY >>
      [] ope = "/" -> << OP_DIVIDE >>
      [] ope = "^" -> << OP_POW >>
      [] ope = "%" -> << OP_REM >>
      [] ope = "!=" -> << OP_EQUAL, OP_NOT >>
      [] ope = "==" -> << OP_EQUAL >>
      [] ope = ">" -> << OP_GREATER >>
      [] ope = ">=" -> << OP_LESS, OP_NOT >>
      [] ope = "<" -> << OP_LESS >>
      [] ope = "<=" -> << OP_GREATER, OP_NOT >>
      [] OTHER -> << >>

RECURSIVE emit_all(_, _, _, _)
emit_all(c, k, bytes, i) ==
    IF i > Len(bytes) THEN c ELSE emit_all(emit_byte(c, k, bytes[i]), k, bytes, i + 1)

\* Prefix: after the operand.
prefix_op(c1, k, ope) ==
    CASE ope = "-" -> emit_byte(c1, k, OP_NEGATIVE)
      [] ope = "!" -> emit_byte(c1, k, OP_NOT)
      [] OTHER -> c1

\* GetSuperProperty / InvokeSuperMethod: after `this`, the arguments and the
\* name constant a: the variable super, then the opcode with the name.
super_op(a, k, byte) == emit_bytes(named_variable(a.c, k, "super", GET_OPS), k, byte, a.index)

\* Logical and: after the left operand and the jump over the right one.
\* logical_and without the OP_POP of the left operand.
logical_and_keeps_left(end_jump, cc, k, right) ==
    patch_jump(compile_exp(end_jump.c, cc, right), k, end_jump.offset)

logical_and(end_jump, cc, k, right) ==
    patch_jump(compile_exp(emit_byte(end_jump.c, k, OP_POP), cc, right), k, end_jump.offset)

\* Logical or: after the two jumps.
logical_or_end(end_jump, else_offset, cc, k, right) ==
    patch_jump(compile_exp(emit_byte(patch_jump(end_jump.c, k, else_offset), k, OP_POP), cc, right),
               k, end_jump.offset)
logical_or(else_jump, cc, k, right) ==
    logical_or_end(emit_jump(else_jump.c, k, OP_JUMP), else_jump.offset, cc, k, right)

\* Assign to a property: after the object and the name constant a.
set_property(a, cc, k, right) == emit_bytes(compile_exp(a.c, cc, right), k, OP_SET_PROP, a.index)

compile_exp(c, cc, expression) ==
    LET k == Len(c.frames)
        e == expression
    IN
    IF c.err # "" THEN c
    ELSE CASE e.k = "Identifer" ->
            IF e.name = "this" /\ ~IsSome(cc.enclosing)
            THEN panic(c, "identifer this. but no class.")
            ELSE named_variable(c, k, e.name, GET_OPS)
      [] e.k = "StringLiteral" -> emit_indexed(add_constant(c, k, StringV(e.value)), k, OP_CONSTANT)
      [] e.k = "FloatLiteral" -> emit_indexed(add_constant(c, k, FloatV(e.value)), k, OP_CONSTANT)
      [] e.k = "IntegerLiteral" -> emit_indexed(add_constant(c, k, IntegerV(e.value)), k, OP_CONSTANT)
      [] e.k = "BooleanLiteral" -> emit_byte(c, k, IF e.value THEN OP_TRUE ELSE OP_FALSE)
      [] e.k = "ArrayLiteral" ->
            emit_bytes(compile_exps(c, cc, e.value, 1), k, OP_ARRAY, Len(e.value) % 256)
      [] e.k = "RangeLiteral" ->
            emit_byte(compile_exp(compile_exp(c, cc, e.start), cc, e.end), k, OP_RANGE)
      [] e.k = "NullLiteral" -> emit_byte(c, k, OP_NULL)
      [] e.k = "Prefix" -> prefix_op(compile_exp(c, cc, e.right), k, e.ope)
      [] e.k = "Infix" ->
            emit_all(compile_exp(compile_exp(c, cc, e.left), cc, e.right), k, infix_ops(e.ope), 1)
      [] e.k = "GetProperty" ->
            IF e.right.k # "Identifer" THEN panic(compile_exp(c, cc, e.left), "not yet implemented")
            ELSE emit_indexed(add_constant(compile_exp(c, cc, e.left), k, StringV(e.right.name)),
                              k, OP_GET_PROP)
      [] e.k = "GetSuperProperty" ->
            IF e.right.k # "Identifer"
            THEN panic(named_variable(c, k, "this", GET_OPS), "not yet implemented")
            ELSE super_op(add_constant(named_variable(c, k, "this", GET_OPS), k, StringV(e.right.name)),
                          k, OP_GET_SUPER)
      [] e.k = "SetProperty" -> c
      [] e.k = "InvokeMethod" ->
            IF e.right.k # "Identifer" THEN panic(compile_exp(c, cc, e.left), "not yet implemented")
            ELSE emit_byte(emit_indexed(add_constant(compile_exps(compile_exp(c, cc, e.left), cc,
                                                                  e.arguments, 1),
                                                     k, StringV(e.right.name)),
                                        k, OP_INVOKE),
                           k, Len(e.arguments) % 256)
      [] e.k = "InvokeSuperMethod" ->
            IF e.right.k # "Identifer"
            THEN panic(named_variable(c, k, "this", GET_OPS), "not yet implemented")
            ELSE emit_byte(super_op(add_constant(compile_exps(named_variable(c, k, "this", GET_OPS),
                                                              cc, e.arguments, 1),
                                                 k, StringV(e.right.name)),
                                    k, OP_SUPER_INVOKE),
                           k, Len(e.arguments) % 256)
      [] e.k = "Logical" ->
            CASE e.ope = "and" ->
                    logical_and(emit_jump(compile_exp(c, cc, e.left), k, OP_JUMP_IF_FALSE), cc, k, e.right)
              [] e.ope = "or" ->
                    logical_or(emit_jump(compile_exp(c, cc, e.left), k, OP_JUMP_IF_FALSE), cc, k, e.right)
              [] OTHER -> c
      [] e.k = "Assign" ->
            IF e.ope # "=" THEN c
            ELSE CASE e.left.k = "Identifer" ->
                    named_variable(compile_exp(c, cc, e.right), k, e.left.name, SET_OPS)
              [] e.left.k = "SetProperty" ->
                    IF e.left.right.k # "Identifer"
                    THEN panic(compile_exp(c, cc, e.left.left), "not yet implemented")
                    ELSE set_property(add_constant(compile_exp(c, cc, e.left.left), k,
                                                   StringV(e.left.right.name)),
                                      cc, k, e.right)
              [] e.left.k = "IndexCall" ->
                    emit_byte(compile_exp(compile_exp(compile_exp(c, cc, e.left.array), cc, e.left.index),
                                          cc, e.right),
                              k, OP_INDEX_SET)
              [] OTHER -> panic(c, "invalid node")
      [] e.k = "FunCall" ->
            emit_bytes(compile_exps(compile_exp(c, cc, e.function), cc, e.arguments, 1),
                       k, OP_CALL, Len(e.arguments) % 256)
      [] e.k = "IndexCall" ->
            emit_byte(compile_exp(compile_exp(c, cc, e.array), cc, e.index), k, OP_INDEX_CALL)

\* for stmt in stmts { compile_stmt(stmt) }; a panic ends the loop.
compile_stmts(c, cc, stmts, i) ==
    IF c.err # "" \/ i > Len(stmts) THEN c
    ELSE compile_stmts(compile_stmt(c, cc, stmts[i]), cc, stmts, i + 1)

RECURSIVE add_params(_, _, _, _)
add_params(c, k, params, i) ==
    IF i > Len(params) THEN c
    ELSE IF params[i].k # "Identifer" THEN panic(c, "not yet implemented")
    ELSE add_params(IF get_scope_depth(c, k) > 0 THEN add_local(c, k, params[i].name) ELSE c,
                    k, params, i + 1)

RECURSIVE emit_upvalues(_, _, _, _)
emit_upvalues(c, k, upvalues, i) ==
    IF i > Len(upvalues) THEN c
    ELSE emit_upvalues(emit_bytes(c, k, IF upvalues[i].is_local THEN 1 ELSE 0, upvalues[i].index % 256),
                       k, upvalues, i + 1)

\* Compiler::function, the end of the body: an init returns `this`, any other
\* function null.
function_return(c3, n, ftype) ==
    emit_byte(IF ftype = "Init" THEN emit_bytes(c3, n, OP_GET_LOCAL, 0) ELSE emit_byte(c3, n, OP_NULL),
              n, OP_RETURN)

\* ... the name constant b added: the function is bound to its name.
function_define(b, k, ftype) ==
    emit_indexed(b, k, IF ftype \in {"Function", "Script"} THEN OP_DEFINE_GLOBAL ELSE OP_METHOD)

\* ... the function constant a added: OP_CLOSURE with the upvalue descriptors.
function_closure(a, k, ftype, name, upvalues) ==
    function_define(add_constant(emit_upvalues(emit_indexed(a, k, OP_CLOSURE), k, upvalues, 1),
                                 k, StringV(name)),
                    k, ftype)

\* ... the body compiled in the new Compiler (frame k + 1 of c5): the finished
\* function becomes a constant of the enclosing chunk.
function_end(c5, k, ftype, name) ==
    LET new_compiler == c5.frames[k + 1]
        c6 == [c5 EXCEPT !.frames = SubSeq(@, 1, k),
                         !.functions = Append(@, new_compiler.function),
                         !.marks = Append(@, new_compiler.stmts)]
    IN  function_closure(add_constant(c6, k, FunctionV(Len(c5.functions) + 1)),
                         k, ftype, name, new_compiler.upvalues)

\* ... the body c3 compiled (a panic in it ends the compilation).
function_body(c3, k, ftype, name) ==
    IF c3.err # "" THEN c3
    ELSE function_end(end_scope(function_return(c3, k + 1, ftype), k + 1), k, ftype, name)

function(c, cc, ftype, name, params, body) ==
    IF c.err # "" THEN c
    ELSE IF name.k # "Identifer" THEN panic(c, "not yet implemented")
    ELSE
    LET k == Len(c.frames)
        n == k + 1
        c1 == [c EXCEPT !.frames = Append(@, Compiler_new(name.name, ftype, Len(params)))]
    IN  function_body(compile_stmt(add_params(begin_scope(c1, n), n, params, 1), cc, body),
                      k, ftype, name.name)

compile_methods(c, ncc, stmts, i) ==
    IF i > Len(stmts) THEN c
    ELSE IF stmts[i].k # "Fun" THEN panic(c, "invalid node.")
    ELSE IF stmts[i].name.k # "Identifer" THEN panic(c, "not yet implemented")
    ELSE compile_methods(function(c, ncc, IF stmts[i].name.name = "init" THEN "Init" ELSE "Method",
                                  stmts[i].name, stmts[i].params, stmts[i].body),
                         ncc, stmts, i + 1)

\* Class, the name constant a added: a local class in a scope, a global one
\* at the top level.
class_declare(a, k, name) ==
    IF get_scope_depth(a.c, k) > 0
    THEN emit_bytes(add_local(a.c, k, name), k, OP_CLASS, a.index)
    ELSE emit_bytes(emit_indexed(a, k, OP_CLASS), k, OP_DEFINE_GLOBAL, a.index)

\* ... the superclass clause: the superclass, a scope with the local super,
\* the class, OP_INHERIT.
class_inherit(c1, k, name, super_class) ==
    IF ~IsSome(super_class) THEN c1
    ELSE IF super_class[1].k # "Identifer" THEN panic(c1, "not yet implemented")
    ELSE IF super_class[1].name = name THEN panic(c1, "A class can't inherit from itself.")
    ELSE emit_byte(named_variable(add_local(begin_scope(named_variable(c1, k, super_class[1].name,
                                                                        GET_OPS), k),
                                            k, "super"),
                                  k, name, GET_OPS),
                   k, OP_INHERIT)

\* class_body without the end of the scope of super.
class_body_keeps_super(c3, ncc, k, body, has_super_class) ==
    IF body.k # "Block" THEN panic(c3, "invalid node.")
    ELSE emit_byte(compile_methods(c3, ncc, body.stmts, 1), k, OP_POP)

\* ... the methods, with the class on the stack.
class_body(c3, ncc, k, body, has_super_class) ==
    IF body.k # "Block" THEN panic(c3, "invalid node.")
    ELSE IF has_super_class
    THEN end_scope(emit_byte(compile_methods(c3, ncc, body.stmts, 1), k, OP_POP), k)
    ELSE emit_byte(compile_methods(c3, ncc, body.stmts, 1), k, OP_POP)

compile_class(c, cc, stmt) ==
    IF stmt.name.k # "Identifer" THEN panic(c, "not yet implemented")
    ELSE
    LET k == Len(c.frames)
        name == stmt.name.name
    IN  class_body(
            named_variable(class_inherit(class_declare(add_constant(c, k, StringV(name)), k, name),
                                         k, name, stmt.super_class),
                           k, name, GET_OPS),
            ClassCompiler(Some(cc), IsSome(stmt.super_class)), k, stmt.body, IsSome(stmt.super_class))

\* if let Some(index) = get_local("__range_counter__") { emit_bytes(byte, index) }
range_counter(c, k, byte) ==
    IF get_local(c, k, "__range_counter__") # -1
    THEN emit_bytes(c, k, byte, get_local(c, k, "__range_counter__")) ELSE c

\* For, the local variable of the loop.
for_variable(c4, k, name) ==
    IF name.k # "Identifer" THEN panic(c4, "not yet implemented") ELSE add_local(c4, k, name.name)

\* ... after OP_JUMP_IF_RANGE_END: the counter is advanced, the variable is
\* declared, the body compiled in the loop's own scope, then OP_POP, the loop
\* back and the exit.
for_end(c6, exit_jump, start_loop, k) ==
    IF c6.err # "" THEN c6
    ELSE end_scope(patch_jump(emit_loop(emit_byte(c6, k, OP_POP), k, start_loop), k, exit_jump.offset),
                   k)

for_body(exit_jump, start_loop, cc, k, stmt) ==
    for_end(compile_stmt(for_variable(range_counter(exit_jump.c, k, OP_COUNTUP), k, stmt.name),
                         cc, stmt.consequence),
            exit_jump, start_loop, k)

\* ... after the counter is declared: the loop starts here.
for_loop(c1, cc, k, stmt) ==
    for_body(emit_jump(compile_exp(range_counter(c1, k, OP_GET_LOCAL), cc, stmt.range),
                       k, OP_JUMP_IF_RANGE_END),
             get_instruction_len(c1, k), cc, k, stmt)

compile_for(c, cc, stmt) ==
    for_loop(add_local(emit_byte(begin_scope(c, Len(c.frames)), Len(c.frames), OP_CONSTANT0),
                       Len(c.frames), "__range_counter__"),
             cc, Len(c.frames), stmt)

\* If, after the else branch's jump: the then branch's jump lands on the
\* OP_POP before the alternative, the else jump after it.
if_end(c4, k, else_jump) == IF c4.err # "" THEN c4 ELSE patch_jump(c4, k, else_jump.offset)

if_alternative(else_jump, then_offset, cc, k, alternative) ==
    if_end(IF IsSome(alternative)
           THEN compile_stmt(emit_byte(patch_jump(else_jump.c, k, then_offset), k, OP_POP), cc, alternative[1])
           ELSE emit_byte(patch_jump(else_jump.c, k, then_offset), k, OP_POP),
           k, else_jump)

\* ... after the consequence c2: the else branch's jump.
if_else(c2, then_offset, cc, k, alternative) ==
    IF c2.err # "" THEN c2
    ELSE if_alternative(emit_jump(c2, k, OP_JUMP), then_offset, cc, k, alternative)

\* ... after the condition's jump.
if_consequence(then_jump, cc, k, stmt) ==
    if_else(compile_stmt(emit_byte(then_jump.c, k, OP_POP), cc, stmt.consequence),
            then_jump.offset, cc, k, stmt.alternative)

compile_if(c, cc, stmt) ==
    if_consequence(emit_jump(compile_exp(c, cc, stmt.condition), Len(c.frames), OP_JUMP_IF_FALSE),
                   cc, Len(c.frames), stmt)

\* Var, after the initializer: a local in a scope, a global at the top level.
var_define(c1, k, name) ==
    IF name.k # "Identifer" THEN panic(c1, "not yet implemented")
    ELSE IF get_scope_depth(c1, k) > 0 THEN add_local(c1, k, name.name)
    ELSE emit_indexed(add_constant(c1, k, StringV(name.name)), k, OP_DEFINE_GLOBAL)

compile_var(c, cc, stmt) == var_define(compile_exp(c, cc, stmt.value), Len(c.frames), stmt.name)

\* While, after the condition's jump.
while_end(c3, exit_jump, start_loop, k) ==
    IF c3.err # "" THEN c3
    ELSE emit_byte(patch_jump(emit_loop(c3, k, start_loop), k, exit_jump.offset), k, OP_POP)

while_body(exit_jump, start_loop, cc, k, stmt) ==
    while_end(compile_stmt(emit_byte(exit_jump.c, k, OP_POP), cc, stmt.consequence),
              exit_jump, start_loop, k)

compile_while(c, cc, stmt) ==
    while_body(emit_jump(compile_exp(c, cc, stmt.condition), Len(c.frames), OP_JUMP_IF_FALSE),
               get_instruction_len(c, Len(c.frames)), cc, Len(c.frames), stmt)

\* Block, after its statements: the scope ends.
block_end(c1, k) == IF c1.err # "" THEN c1 ELSE end_scope(c1, k)

compile_stmt_match(c, cc, stmt) ==
    LET k == Len(c.frames) IN
    CASE stmt.k = "Class" -> compile_class(c, cc, stmt)
      [] stmt.k = "For" -> compile_for(c, cc, stmt)
      [] stmt.k = "Fun" -> function(c, cc, "Function", stmt.name, stmt.params, stmt.body)
      [] stmt.k = "If" -> compile_if(c, cc, stmt)
      [] stmt.k = "Return" ->
            emit_byte(compile_exp(c, cc, IF IsSome(stmt.value) THEN stmt.value[1] ELSE NullLiteral),
                      k, OP_RETURN)
      [] stmt.k = "Var" -> compile_var(c, cc, stmt)
      [] stmt.k = "While" -> compile_while(c, cc, stmt)
      [] stmt.k = "Block" -> block_end(compile_stmts(begin_scope(c, k), cc, stmt.stmts, 1), k)
      [] stmt.k = "Print" -> emit_byte(compile_exp(c, cc, stmt.expression), k, OP_PRINT)
      [] stmt.k = "ExpStmt" -> emit_byte(compile_exp(c, cc, stmt.expression), k, OP_POP)

\* The record of where a statement's code lies: [start, end) in the chunk,
\* with the number of declared locals at both ends (c before, c1 after).
mark_stmt(c, c1, kind) ==
    LET k == Len(c.frames) IN
    IF c1.err # "" THEN c1
    ELSE [c1 EXCEPT !.frames[k].stmts =
              Append(@, [kind |-> kind,
                         start |-> get_instruction_len(c, k), end |-> get_instruction_len(c1, k),
                         locals_before |-> local_count(c, k), locals_after |-> local_count(c1, k)])]

compile_stmt(c, cc, stmt) ==
    IF c.err # "" THEN c ELSE mark_stmt(c, compile_stmt_match(c, cc, stmt), stmt.k)

\* The script function closed with OP_NULL OP_RETURN, as function() closes
\* every other function.
script_function_with_return(c1) ==
    [functions |-> Append(c1.functions,
                          [c1.frames[1].function EXCEPT !.chunk.code = @ \o << OP_NULL, OP_RETURN >>]),
     marks |-> Append(c1.marks, c1.frames[1].stmts),
     err |-> c1.err]

\* The script function joins the finished functions as the last one.
script_function(c1) ==
    [functions |-> Append(c1.functions, c1.frames[1].function),
     marks |-> Append(c1.marks, c1.frames[1].stmts),
     err |-> c1.err]

\* main.rs: one Compiler for "__main__", every statement of the program
\* compiled into it; the script function is then handed to the VM.  No
\* OP_RETURN is appended to the script chunk.
compile(program) ==
    script_function(compile_stmts([frames |-> << Compiler_new("__main__", "Script", 0) >>,
                                   functions |-> << >>, marks |-> << >>, err |-> ""],
                                  ClassCompiler(None, FALSE), program, 1))

(***************************************************************************)
(* The virtual machine (src/vm.rs).                                        *)
(*                                                                         *)
(* A machine record m carries the VM's fields and the heap of Rc objects   *)
(* while one instruction executes.  m.result is the outcome of run():      *)
(* "Running" while the loop goes on, otherwise the InterpretResult that    *)
(* was returned ("Ok", "End", "RuntimeError", "CompileError"), "Panic" for *)
(* a Rust panic, and "Fault" for an operation whose outcome depends on the *)
(* build: an unchecked index outside the array or a usize subtraction      *)
(* below zero (a panic in a debug build, undefined in a release build).    *)
(* Once m.result is not "Running" the rest of the handler has no effect.   *)
(* "Unmodelled" stops a run that needs an operation left out of this       *)
(* model (floating point, string formatting, the clock).                   *)
(***************************************************************************)
Table_new == [key \in {} |-> NullV]
Table_insert(table, key, value) == (key :> value) @@ table
StackArray_new == [values |-> << >>, index |-> 0]

\* StackArray::get / get_mut: values is the written prefix of the array
\* [Value::Null; STACK_LEN]; get_unchecked outside the array is a Fault.
InStack(i) == 0 <= i /\ i < STACK_LEN
StackArray_get(st, i) == IF i >= 0 /\ i < Len(st.values) THEN st.values[i + 1] ELSE NullV
StackArray_set(st, i, value) ==
    [st EXCEPT !.values = [j \in 1..(IF i + 1 > Len(@) THEN i + 1 ELSE Len(@)) |->
                              IF j = i + 1 THEN value ELSE IF j <= Len(@) THEN @[j] ELSE NullV]]

\* gen counts, for each stack slot, how many times the slot has been popped:
\* slot i with gen g is one variable (or temporary) from the push that made
\* it live to the pop that ends it.  written[<<slot, gen>>] is the value last
\* stored into that variable through a closure, for as long as no store to
\* the slot itself has followed.  Both are bookkeeping for the properties
\* about upvalue cells; the VM has no such fields.
gen_get(gen, i) == IF i >= 0 /\ i < Len(gen) THEN gen[i + 1] ELSE 0
leave(gen, from, to) ==
    [j \in 1..(IF to > Len(gen) THEN to ELSE Len(gen)) |->
        IF from < j /\ j <= to THEN gen_get(gen, j - 1) + 1 ELSE gen_get(gen, j - 1)]

stop(m, outcome) == IF m.result = "Running" THEN [m EXCEPT !.result = outcome] ELSE m
check(m, ok) == IF ok THEN m ELSE stop(m, "Fault")

\* StackArray::push: a bounds-checked write, then index += 1.
push(m, value) ==
    IF m.result # "Running" THEN m
    ELSE IF m.stack.index >= STACK_LEN THEN stop(m, "Panic")
    ELSE [m EXCEPT !.stack = [StackArray_set(@, @.index, value) EXCEPT !.index = @ + 1]]

\* StackArray::pop / pop_index: index -= 1 (the value is read with last).
pop(m) ==
    IF m.result # "Running" THEN m
    ELSE IF m.stack.index = 0 THEN stop(m, "Fault")
    ELSE [m EXCEPT !.stack.index = @ - 1, !.gen = leave(@, m.stack.index - 1, m.stack.index)]

RECURSIVE pop_n(_, _)
pop_n(m, n) == IF n = 0 THEN m ELSE pop_n(pop(m), n - 1)

last(m) == StackArray_get(m.stack, m.stack.index - 1)
stack_get(m, i) == StackArray_get(m.stack, i)
stack_set(m, i, value) ==
    IF m.result # "Running" THEN m
    ELSE IF ~InStack(i) THEN stop(m, "Fault")
    ELSE [m EXCEPT !.stack = StackArray_set(@, i, value),
                   !.written = [o \in DOMAIN @ \ {<< i, gen_get(m.gen, i) >>} |-> @[o]]]
set_index(m, i) ==
    IF m.result # "Running" THEN m
    ELSE [m EXCEPT !.stack.index = i, !.gen = leave(@, i, m.stack.index)]

CallFrame(closure, ip, sp) == [closure |-> closure, ip |-> ip, sp |-> sp]
frame_count(m) == Len(m.frames)
frame_last(m) == m.frames[Len(m.frames)]
frame_push(m, frame) ==
    IF m.result # "Running" THEN m
    ELSE IF Len(m.frames) >= FRAME_MAX THEN stop(m, "Panic")
    ELSE [m EXCEPT !.frames = Append(@, frame)]
frame_pop(m) ==
    IF m.result # "Running" THEN m
    ELSE [m EXCEPT !.frames = SubSeq(@, 1, Len(@) - 1)]

\* The heap: what the Rc<...> values point to.  An object is its index in
\* the table of its kind.
Heap_new == [closures |-> << >>, upvalues |-> << >>, classes |-> << >>, instances |-> << >>,
             arrays |-> << >>, bound_methods |-> << >>]
ClosureObject(fn) == [function |-> fn, upvalues |-> << >>]
UpvalueObject(location) == [location |-> Some(location), closed |-> None, next |-> None]
ClassObject(name) == [name |-> name, methods |-> Table_new]
InstanceObject(class) == [class |-> class, fields |-> Table_new]
BoundMethodObject(reciever, method) == [reciever |-> reciever, method |-> method]

\* The program text and what the compiler made of it; the VM's fields; the
\* heap; the outcome of run() and what was printed; the bookkeeping that the
\* properties read (gen, origin, pending, entry).
VARIABLES prog, functions, marks, stack, frames, globals, open_upvalue, heap, result, output,
          gen, origin, written, pending, entry
vars == << prog, functions, marks, stack, frames, globals, open_upvalue, heap, result, output,
           gen, origin, written, pending, entry >>

function_of(m, closure) == functions[m.heap.closures[closure].function]
chunk(m) == function_of(m, frame_last(m).closure).chunk

\* read_byte / read_local_index: Option<u8>, -1 for None; the ip moves on.
read_byte(m) ==
    LET f == frame_last(m) IN
    IF f.ip < Len(chunk(m).code)
    THEN [m |-> [m EXCEPT !.frames[Len(m.frames)].ip = @ + 1], v |-> chunk(m).code[f.ip + 1]]
    ELSE [m |-> m, v |-> -1]

\* read_jump: Chunk::read_u16, big-endian; -1 for None.
read_jump(m) ==
    LET f == frame_last(m)
        code == chunk(m).code IN
    IF f.ip + 1 < Len(code)
    THEN [m |-> [m EXCEPT !.frames[Len(m.frames)].ip = @ + 2],
          v |-> code[f.ip + 1] * 256 + code[f.ip + 2]]
    ELSE [m |-> m, v |-> -1]

\* read_constant: panics at the end of the code; ConstantArray::get reads
\* the array [Value::Null; CONSTANT_LEN] at a u8 index.
read_constant(m) ==
    LET r == read_byte(m)
        constants == chunk(m).constants IN
    IF r.v = -1 THEN [m |-> stop(m, "Panic"), v |-> NullV]
    ELSE [m |-> r.m, v |-> IF r.v < Len(constants) THEN constants[r.v + 1] ELSE NullV]

read_string(m) ==
    LET r == read_constant(m) IN
    IF r.v.t = "String" THEN [m |-> r.m, v |-> r.v.s]
    ELSE [m |-> stop(r.m, "Panic"), v |-> ""]

(***************************************************************************)
(* Value operators (src/vm/value.rs).  A Result is [ok, v]; err is the Err *)
(* of CalcError, lost marks an operation this model leaves out.            *)
(***************************************************************************)
Ok(v) == [ok |-> "Ok", v |-> v]
Err == [ok |-> "Err", v |-> NullV]
Lost == [ok |-> "Unmodelled", v |-> NullV]
\* i64 arithmetic.  The integers of the programs checked here stay far inside
\* the i64 range, so the overflow behaviour is not modelled.
Int64(n) == Ok(IntegerV(n))
Abs(n) == IF n < 0 THEN -n ELSE n
\* Rust's / and % on i64 truncate toward zero; a zero divisor panics.
TruncDiv(a, b) == IF (a < 0) = (b < 0) THEN Abs(a) \div Abs(b) ELSE -(Abs(a) \div Abs(b))
TruncRem(a, b) == a - b * TruncDiv(a, b)

is_falsy(value) == (value.t = "Boolean" /\ value.v = 0) \/ value.t = "Null"
neg(a) == CASE a.t = "Integer" -> Int64(-a.v) [] a.t = "Float" -> Lost [] OTHER -> Err
not(a) == Ok(BooleanV(is_falsy(a)))
add(a, b) ==
    CASE a.t = "Integer" /\ b.t = "Integer" -> Int64(a.v + b.v)
      [] a.t \in {"Integer", "Float"} /\ b.t \in {"Integer", "Float", "String"} -> Lost
      [] a.t = "String" /\ b.t \in {"Float", "Integer", "String", "Boolean", "Array"} -> Lost
      [] a.t = "Boolean" /\ b.t = "String" -> Lost
      [] OTHER -> Err
arith(ope, a, b) ==
    CASE a.t = "Integer" /\ b.t = "Integer" ->
            CASE ope = "-" -> Int64(a.v - b.v)
              [] ope = "*" -> Int64(a.v * b.v)
              [] ope = "/" -> IF b.v = 0 THEN [ok |-> "Panic", v |-> NullV] ELSE Int64(TruncDiv(a.v, b.v))
              [] ope = "%" -> IF b.v = 0 THEN [ok |-> "Panic", v |-> NullV] ELSE Int64(TruncRem(a.v, b.v))
      [] a.t \in {"Integer", "Float"} /\ b.t \in {"Integer", "Float"} -> Lost
      [] OTHER -> Err

\* #[derive(PartialEq, PartialOrd)] on enum Value: variants compare by their
\* order in the enum, equal variants by their payload.
variant(value) ==
    CASE value.t = "Float" -> 0 [] value.t = "Integer" -> 1 [] value.t = "String" -> 2
      [] value.t = "Boolean" -> 3 [] value.t = "Array" -> 4 [] value.t = "Function" -> 5
      [] value.t = "Closure" -> 6 [] value.t = "Native" -> 7 [] value.t = "DateTime" -> 8
      [] value.t = "Class" -> 9 [] value.t = "Instance" -> 10 [] value.t = "BoundMethod" -> 11
      [] value.t = "Null" -> 12
\* The payload comparison is modelled for integers, booleans and null, and for
\* equality of strings and of one object with itself.
partial_cmp(a, b) ==
    CASE variant(a) < variant(b) -> Ok(-1)
      [] variant(a) > variant(b) -> Ok(1)
      [] a.t \in {"Integer", "Boolean"} -> Ok(IF a.v < b.v THEN -1 ELSE IF a.v > b.v THEN 1 ELSE 0)
      [] a.t = "Null" -> Ok(0)
      [] OTHER -> Lost
eq(a, b) ==
    CASE a.t # b.t -> Ok(FALSE)
      [] a.t \in {"Integer", "Boolean", "Null", "String"} -> Ok(a = b)
      [] a = b /\ a.t # "Float" -> Ok(TRUE)
      [] OTHER -> Lost

\* match r { Ok(value) => push(value), Err(e) => return RuntimeError(..) }
push_result(m, r) ==
    CASE r.ok = "Ok" -> push(m, r.v)
      [] r.ok = "Err" -> stop(m, "RuntimeError")
      [] OTHER -> stop(m, r.ok)

(***************************************************************************)
(* Upvalue cells.  origin[cell] = <<slot, gen of the slot>> at the capture *)
(* names the variable the cell was made for (bookkeeping, as gen).         *)
(***************************************************************************)
\* The loop of capture_upvalue: skip cells without a location, pass the
\* cells above index; the result is <<prev_upvalue, current_upvalue>>.
RECURSIVE capture_walk(_, _, _, _)
capture_walk(m, prev_upvalue, current_upvalue, index) ==
    IF ~IsSome(current_upvalue) THEN << prev_upvalue, current_upvalue >>
    ELSE LET u == m.heap.upvalues[current_upvalue[1]] IN
         IF ~IsSome(u.location) THEN capture_walk(m, prev_upvalue, u.next, index)
         ELSE IF u.location[1] > index THEN capture_walk(m, current_upvalue, u.next, index)
         ELSE << prev_upvalue, current_upvalue >>

\* capture_upvalue without the test for an existing cell of the slot.
capture_upvalue_always_new(m, index) ==
    LET w == capture_walk(m, None, m.open_upvalue, index)
        prev_upvalue == w[1]
        current_upvalue == w[2]
        result_id == Len(m.heap.upvalues) + 1
        created_upvalue == [UpvalueObject(index) EXCEPT !.next = current_upvalue]
        m1 == [m EXCEPT !.heap.upvalues = Append(@, created_upvalue),
                        !.origin = Append(@, << index, gen_get(m.gen, index) >>)]
    IN  IF IsSome(prev_upvalue)
        THEN [m |-> [m1 EXCEPT !.heap.upvalues[prev_upvalue[1]].next = Some(result_id)], v |-> result_id]
        ELSE [m |-> [m1 EXCEPT !.open_upvalue = Some(result_id)], v |-> result_id]

capture_upvalue(m, index) ==
    LET w == capture_walk(m, None, m.open_upvalue, index)
        prev_upvalue == w[1]
        current_upvalue == w[2]
        result_id == Len(m.heap.upvalues) + 1
        created_upvalue == [UpvalueObject(index) EXCEPT !.next = current_upvalue]
        m1 == [m EXCEPT !.heap.upvalues = Append(@, created_upvalue),
                        !.origin = Append(@, << index, gen_get(m.gen, index) >>)]
    IN  IF IsSome(current_upvalue) /\ m.heap.upvalues[current_upvalue[1]].location = Some(index)
        THEN [m |-> m, v |-> current_upvalue[1]]
        ELSE IF IsSome(prev_upvalue)
        THEN [m |-> [m1 EXCEPT !.heap.upvalues[prev_upvalue[1]].next = Some(result_id)], v |-> result_id]
        ELSE [m |-> [m1 EXCEPT !.open_upvalue = Some(result_id)], v |-> result_id]

\* close_upvalues takes no slot: it closes every cell of the open list.
RECURSIVE close_walk(_, _)
close_walk(m, current_upvalue) ==
    IF ~IsSome(current_upvalue) THEN m
    ELSE LET u == m.heap.upvalues[current_upvalue[1]] IN
         IF ~IsSome(u.location) THEN close_walk(m, u.next)
         ELSE close_walk(
                [check(m, InStack(u.location[1])) EXCEPT
                    !.heap.upvalues[current_upvalue[1]].closed = Some(stack_get(m, u.location[1])),
                    !.heap.upvalues[current_upvalue[1]].location = None],
                u.next)

close_upvalues(m) ==
    IF m.result # "Running" THEN m ELSE [close_walk(m, m.open_upvalue) EXCEPT !.open_upvalue = None]

(***************************************************************************)
(* Native functions (vm.rs, after impl VM).                                *)
(***************************************************************************)
new_array(m, values) ==
    [m |-> [m EXCEPT !.heap.arrays = Append(@, values)], v |-> ArrayV(Len(m.heap.arrays) + 1)]
Vec_get(vec, i) == IF i >= 0 /\ i < Len(vec) THEN Some(vec[i + 1]) ELSE None
Integers_from(a, b) == [i \in 1..(IF b >= a THEN b - a + 1 ELSE 0) |-> IntegerV(a + i - 1)]
NativeNames == {"len", "append", "last", "rest", "str", "first", "now", "range", "get"}

native(m, name, args) ==
    LET n == Len(args)
        arr(i) == m.heap.arrays[args[i].v]
        is_arr(i) == args[i].t = "Array"
        is_int(i) == args[i].t = "Integer"
        null == [m |-> m, v |-> NullV]
        died(how) == [m |-> stop(m, how), v |-> NullV]
    IN
    CASE name = "len" ->
            IF n = 0 THEN null ELSE IF is_arr(1) THEN [m |-> m, v |-> IntegerV(Len(arr(1)))] ELSE null
      [] name = "first" ->
            IF n # 1 THEN null ELSE IF ~is_arr(1) \/ Len(arr(1)) = 0 THEN died("Panic")
            ELSE [m |-> m, v |-> arr(1)[1]]
      [] name = "last" ->
            IF n # 1 THEN null ELSE IF ~is_arr(1) \/ Len(arr(1)) = 0 THEN died("Panic")
            ELSE [m |-> m, v |-> arr(1)[Len(arr(1))]]
      [] name = "rest" ->
            IF n # 1 THEN null ELSE IF ~is_arr(1) THEN died("Panic")
            ELSE new_array(m, SubSeq(arr(1), 2, Len(arr(1))))
      [] name = "get" ->
            IF n # 2 THEN null ELSE IF ~is_arr(1) THEN died("Panic")
            ELSE IF is_int(2) /\ IsSome(Vec_get(arr(1), args[2].v))
            THEN [m |-> m, v |-> Vec_get(arr(1), args[2].v)[1]] ELSE null
      [] name = "append" ->
            IF n < 2 THEN null ELSE IF ~is_arr(1) THEN died("Panic")
            ELSE new_array(m, arr(1) \o SubSeq(args, 2, n))
      [] name = "range" ->
            IF n = 1 THEN (IF is_int(1) THEN new_array(m, Integers_from(0, args[1].v - 1))
                           ELSE died("Panic"))
            ELSE IF n = 2 THEN (IF is_int(1) /\ is_int(2)
                                THEN new_array(m, Integers_from(args[1].v, args[2].v - 1))
                                ELSE died("Panic"))
            ELSE IF n = 3 THEN died("Unmodelled")
            ELSE null
      [] OTHER -> died("Unmodelled")

(***************************************************************************)
(* Calls.  pending holds, for every call that pushed a frame and has not   *)
(* returned, the stack index of its callee (bookkeeping: the VM keeps only *)
(* frame.sp).                                                              *)
(***************************************************************************)
enter(m, frame, callee_index) ==
    LET m1 == frame_push(m, frame) IN
    IF m1.result # "Running" THEN m1 ELSE [m1 EXCEPT !.pending = Append(@, callee_index)]

arity_of(m, closure) == function_of(m, closure).arity

\* call_value leaving the bound method in the callee's slot.
call_value_keeps_callee(m, callee, arg_count) ==
    LET index == m.stack.index - (arg_count + 1)
        m0 == check(m, index >= 0)
    IN
    IF m0.result # "Running" THEN m0
    ELSE CASE callee.t = "Closure" ->
            IF arg_count # arity_of(m0, callee.v) THEN stop(m0, "RuntimeError")
            ELSE enter(m0, CallFrame(callee.v, 0, index), index)
      [] callee.t = "Native" ->
            LET r == native(m0, callee.s, SubSeq(m0.stack.values, index + 2, m0.stack.index)) IN
            push(pop(pop_n(r.m, arg_count)), r.v)
      [] callee.t = "Class" ->
            LET instance_id == Len(m0.heap.instances) + 1
                class == m0.heap.classes[callee.v]
                m1 == stack_set([m0 EXCEPT !.heap.instances = Append(@, InstanceObject(callee.v))],
                                index, InstanceV(instance_id))
            IN  IF "init" \in DOMAIN class.methods
                THEN LET init == class.methods["init"] IN
                     IF init.t # "Closure" THEN stop(m1, "Panic")
                     ELSE IF arg_count # arity_of(m1, init.v) THEN stop(m1, "RuntimeError")
                     ELSE enter(m1, CallFrame(init.v, 0, index), index)
                ELSE IF arg_count # 0 THEN stop(m1, "Panic") ELSE m1
      [] callee.t = "BoundMethod" ->
            LET bound == m0.heap.bound_methods[callee.v] IN
            IF arg_count # arity_of(m0, bound.method) THEN stop(m0, "RuntimeError")
            ELSE enter(m0, CallFrame(bound.method, 0, index), index)
      [] OTHER -> stop(m0, "RuntimeError")

call_value(m, callee, arg_count) ==
    LET index == m.stack.index - (arg_count + 1)
        m0 == check(m, index >= 0)
    IN
    IF m0.result # "Running" THEN m0
    ELSE CASE callee.t = "Closure" ->
            IF arg_count # arity_of(m0, callee.v) THEN stop(m0, "RuntimeError")
            ELSE enter(m0, CallFrame(callee.v, 0, index), index)
      [] callee.t = "Native" ->
            LET r == native(m0, callee.s, SubSeq(m0.stack.values, index + 2, m0.stack.index)) IN
            push(pop(pop_n(r.m, arg_count)), r.v)
      [] callee.t = "Class" ->
            LET instance_id == Len(m0.heap.instances) + 1
                class == m0.heap.classes[callee.v]
                m1 == stack_set([m0 EXCEPT !.heap.instances = Append(@, InstanceObject(callee.v))],
                                index, InstanceV(instance_id))
            IN  IF "init" \in DOMAIN class.methods
                THEN LET init == class.methods["init"] IN
                     IF init.t # "Closure" THEN stop(m1, "Panic")
                     ELSE IF arg_count # arity_of(m1, init.v) THEN stop(m1, "RuntimeError")
                     ELSE enter(m1, CallFrame(init.v, 0, index), index)
                ELSE IF arg_count # 0 THEN stop(m1, "Panic") ELSE m1
      [] callee.t = "BoundMethod" ->
            LET bound == m0.heap.bound_methods[callee.v] IN
            IF arg_count # arity_of(m0, bound.method) THEN stop(m0, "RuntimeError")
            ELSE enter(stack_set(m0, index, bound.reciever), CallFrame(bound.method, 0, index), index)
      [] OTHER -> stop(m0, "RuntimeError")

invoke_from_class(m, class, name, arg_count) ==
    LET index == m.stack.index - (arg_count + 1)
        m0 == check(m, index >= 0)
        methods == m.heap.classes[class].methods
    IN
    IF m0.result # "Running" THEN m0
    ELSE IF name \notin DOMAIN methods THEN stop(m0, "Panic")
    ELSE IF methods[name].t # "Closure" THEN stop(m0, "RuntimeError")
    ELSE IF arg_count # arity_of(m0, methods[name].v) THEN stop(m0, "RuntimeError")
    ELSE enter(m0, CallFrame(methods[name].v, 0, index), index)

invoke(m, name, arg_count) ==
    LET index == m.stack.index - (arg_count + 1)
        m0 == check(m, index >= 0)
        receiver == stack_get(m, index)
    IN
    IF m0.result # "Running" THEN m0
    ELSE IF receiver.t # "Instance" THEN stop(m0, "Panic")
    ELSE LET instance == m0.heap.instances[receiver.v] IN
         IF name \in DOMAIN instance.fields
         THEN call_value(stack_set(m0, index, instance.fields[name]), instance.fields[name], arg_count)
         ELSE invoke_from_class(m0, instance.class, name, arg_count)

\* bind_method: Option<()>; bound is FALSE for None.
bind_method(m, class, name) ==
    LET methods == m.heap.classes[class].methods IN
    IF name \notin DOMAIN methods \/ methods[name].t # "Closure" THEN [m |-> m, bound |-> FALSE]
    ELSE LET id == Len(m.heap.bound_methods) + 1
             m1 == [m EXCEPT !.heap.bound_methods = Append(@, BoundMethodObject(last(m), methods[name].v))]
         IN  [m |-> push(pop(check(m1, m.stack.index > 0)), BoundMethodV(id)), bound |-> TRUE]

(***************************************************************************)
(* The run loop (VM::run).  One action per instruction.                    *)
(***************************************************************************)
vm == [stack |-> stack, frames |-> frames, globals |-> globals, open_upvalue |-> open_upvalue,
       heap |-> heap, result |-> result, output |-> output,
       gen |-> gen, origin |-> origin, written |-> written, pending |-> pending]

Running == result = "Running"
current_function == heap.closures[frames[Len(frames)].closure].function
get_current_ip == frames[Len(frames)].ip
\* get_instruction(ip): -1 for None.
instruction ==
    IF Running /\ get_current_ip < Len(functions[current_function].chunk.code)
    THEN functions[current_function].chunk.code[get_current_ip + 1] ELSE -1
\* *self.get_current_ip_mut() += 1
fetched == [vm EXCEPT !.frames[Len(frames)].ip = @ + 1]

\* entry remembers, for a statement the top frame is executing, the stack
\* depth at which its code was entered; the record is dropped once the code
\* has been left at its end, or with its frame.
note(m) ==
    LET left == {e \in entry : \/ e.frame > Len(m.frames)
                               \/ /\ e.frame = Len(frames)
                                  /\ marks[current_function][e.stmt].end = get_current_ip}
        kept == entry \ left
        fn == m.heap.closures[frame_last(m).closure].function
        begun == {i \in 1..Len(marks[fn]) :
                    /\ marks[fn][i].start = frame_last(m).ip
                    /\ ~\E e \in kept : e.frame = Len(m.frames) /\ e.stmt = i}
    IN  IF m.result # "Running" \/ Len(m.frames) = 0 THEN kept
        ELSE kept \cup {[frame |-> Len(m.frames), stmt |-> i, depth |-> m.stack.index] : i \in begun}

\* The state after the handler.  A Fault is a panic in a debug build and
\* undefined behaviour in a release build.
Commit(m) ==
    /\ stack' = m.stack
    /\ frames' = m.frames
    /\ globals' = m.globals
    /\ open_upvalue' = m.open_upvalue
    /\ heap' = m.heap
    /\ output' = m.output
    /\ gen' = m.gen
    /\ origin' = m.origin
    /\ written' = m.written
    /\ pending' = m.pending
    /\ result' \in (IF m.result = "Fault" THEN {"Panic", "Undefined"} ELSE {m.result})
    /\ entry' = note(m)
    /\ UNCHANGED << prog, functions, marks >>

\* pop two operands (b on top), push the result of f.
binary(m, f(_, _)) ==
    LET b == last(m)
        m1 == pop(m)
        a == last(m1)
        m2 == pop(m1)
    IN  push_result(m2, f(a, b))

\* OP_RETURN without the truncation of the stack to the frame's base.
op_return_keeps_locals ==
    /\ instruction = OP_RETURN
    /\ LET value == last(fetched)
           m1 == close_upvalues(pop(fetched))
           frame == frame_last(m1)
           m2 == [frame_pop(m1) EXCEPT !.pending = SubSeq(@, 1, Len(@) - 1)]
       IN  IF m1.result # "Running" THEN Commit(m1)
           ELSE IF function_of(m1, frame.closure).name = "__main__"
           THEN Commit(stop(pop(m2), "Ok"))
           ELSE Commit(push(m2, value))

\* OP_RETURN ending the run at the return of any frame.
op_return_ends_run ==
    /\ instruction = OP_RETURN
    /\ LET value == last(fetched)
           m1 == close_upvalues(pop(fetched))
           m2 == [frame_pop(m1) EXCEPT !.pending = SubSeq(@, 1, Len(@) - 1)]
       IN  IF m1.result # "Running" THEN Commit(m1)
           ELSE Commit(stop(pop(m2), "Ok"))

op_return ==
    /\ instruction = OP_RETURN
    /\ LET value == last(fetched)
           m1 == close_upvalues(pop(fetched))
           frame == frame_last(m1)
           m2 == [frame_pop(m1) EXCEPT !.pending = SubSeq(@, 1, Len(@) - 1)]
       IN  IF m1.result # "Running" THEN Commit(m1)
           ELSE IF function_of(m1, frame.closure).name = "__main__"
           THEN Commit(stop(pop(m2), "Ok"))
           ELSE Commit(push(set_index(m2, frame.sp), value))

op_constant ==
    /\ instruction = OP_CONSTANT
    /\ LET r == read_constant(fetched) IN Commit(push(r.m, r.v))

op_negative ==
    /\ instruction = OP_NEGATIVE
    /\ Commit(push_result(pop(fetched), neg(last(fetched))))

op_add ==
    /\ instruction = OP_ADD
    /\ Commit(binary(fetched, add))

op_subtract ==
    /\ instruction = OP_SUBTRACT
    /\ Commit(binary(fetched, LAMBDA a, b : arith("-", a, b)))

op_multiply ==
    /\ instruction = OP_MULTIPLY
    /\ Commit(binary(fetched, LAMBDA a, b : arith("*", a, b)))

op_divide ==
    /\ instruction = OP_DIVIDE
    /\ Commit(binary(fetched, LAMBDA a, b : arith("/", a, b)))

op_rem ==
    /\ instruction = OP_REM
    /\ Commit(binary(fetched, LAMBDA a, b : arith("%", a, b)))

\* powf / powi on f64 are not modelled; the operand checks are.
op_pow ==
    /\ instruction = OP_POW
    /\ Commit(binary(fetched, LAMBDA a, b :
                IF a.t \in {"Float", "Integer"} /\ b.t \in {"Float", "Integer"} THEN Lost ELSE Err))

op_true == instruction = OP_TRUE /\ Commit(push(fetched, BooleanV(TRUE)))
op_false == instruction = OP_FALSE /\ Commit(push(fetched, BooleanV(FALSE)))
op_null == instruction = OP_NULL /\ Commit(push(fetched, NullV))

op_not ==
    /\ instruction = OP_NOT
    /\ Commit(push_result(pop(fetched), not(last(fetched))))

op_greater ==
    /\ instruction = OP_GREATER
    /\ Commit(binary(fetched, LAMBDA a, b :
                LET r == partial_cmp(a, b) IN IF r.ok = "Ok" THEN Ok(BooleanV(r.v = 1)) ELSE r))

op_less ==
    /\ instruction = OP_LESS
    /\ Commit(binary(fetched, LAMBDA a, b :
                LET r == partial_cmp(a, b) IN IF r.ok = "Ok" THEN Ok(BooleanV(r.v = -1)) ELSE r))

op_equal ==
    /\ instruction = OP_EQUAL
    /\ Commit(binary(fetched, LAMBDA a, b :
                LET r == eq(a, b) IN IF r.ok = "Ok" THEN Ok(BooleanV(r.v)) ELSE r))

\* println!("{}", a): output records the value that was printed.
op_print ==
    /\ instruction = OP_PRINT
    /\ LET m1 == pop(fetched) IN
       Commit(IF m1.result # "Running" THEN m1 ELSE [m1 EXCEPT !.output = Append(@, last(fetched))])

op_pop == instruction = OP_POP /\ Commit(pop(fetched))

op_define_global ==
    /\ instruction = OP_DEFINE_GLOBAL
    /\ LET key == read_string(fetched)
           m1 == pop(key.m)
       IN  Commit(IF m1.result # "Running" THEN m1
                  ELSE [m1 EXCEPT !.globals = Table_insert(@, key.v, last(key.m))])

op_get_global ==
    /\ instruction = OP_GET_GLOBAL
    /\ LET key == read_string(fetched) IN
       Commit(IF key.m.result # "Running" THEN key.m
              ELSE IF key.v \in DOMAIN key.m.globals THEN push(key.m, key.m.globals[key.v])
              ELSE stop(key.m, "RuntimeError"))

\* OP_SET_GLOBAL popping the value as OP_DEFINE_GLOBAL does.
op_set_global_pops ==
    /\ instruction = OP_SET_GLOBAL
    /\ LET key == read_string(fetched)
           m1 == pop(key.m)
       IN  Commit(IF m1.result # "Running" THEN m1
                  ELSE [m1 EXCEPT !.globals = Table_insert(@, key.v, last(key.m))])

op_set_global ==
    /\ instruction = OP_SET_GLOBAL
    /\ LET key == read_string(fetched)
           m1 == check(key.m, key.m.stack.index > 0)
       IN  Commit(IF m1.result # "Running" THEN m1
                  ELSE [m1 EXCEPT !.globals = Table_insert(@, key.v, last(m1))])

op_get_local ==
    /\ instruction = OP_GET_LOCAL
    /\ LET index == read_byte(fetched)
           slot == frame_last(fetched).sp + index.v
       IN  Commit(IF index.v = -1 THEN stop(fetched, "RuntimeError")
                  ELSE push(check(index.m, InStack(slot)), stack_get(index.m, slot)))

op_set_local ==
    /\ instruction = OP_SET_LOCAL
    /\ LET index == read_byte(fetched)
           m1 == check(index.m, index.m.stack.index > 0)
       IN  Commit(IF index.v = -1 THEN stop(fetched, "RuntimeError")
                  ELSE stack_set(m1, frame_last(fetched).sp + index.v, last(m1)))

jump(m, offset) ==
    LET ip == frame_last(m).ip + offset IN
    IF m.result # "Running" THEN m
    ELSE IF ip < 0 THEN stop(m, "Fault")
    ELSE [m EXCEPT !.frames[Len(m.frames)].ip = ip]

op_jump_if_false ==
    /\ instruction = OP_JUMP_IF_FALSE
    /\ LET offset == read_jump(fetched)
           m1 == check(offset.m, offset.m.stack.index > 0)
       IN  Commit(IF offset.v = -1 THEN stop(fetched, "RuntimeError")
                  ELSE IF is_falsy(last(m1)) THEN jump(m1, offset.v) ELSE m1)

op_jump ==
    /\ instruction = OP_JUMP
    /\ LET offset == read_jump(fetched) IN
       Commit(IF offset.v = -1 THEN stop(fetched, "RuntimeError") ELSE jump(offset.m, offset.v))

op_loop ==
    /\ instruction = OP_LOOP
    /\ LET offset == read_jump(fetched) IN
       Commit(IF offset.v = -1 THEN stop(fetched, "RuntimeError") ELSE jump(offset.m, -offset.v))

op_call ==
    /\ instruction = OP_CALL
    /\ LET arg_count == read_byte(fetched)
           index == arg_count.m.stack.index - (arg_count.v + 1)
       IN  Commit(IF arg_count.v = -1 THEN stop(fetched, "RuntimeError")
                  ELSE call_value(check(arg_count.m, index >= 0), stack_get(arg_count.m, index),
                                  arg_count.v))

op_array ==
    /\ instruction = OP_ARRAY
    /\ LET length == read_byte(fetched)
           start == length.m.stack.index - length.v
           r == new_array(length.m, SubSeq(length.m.stack.values, start + 1, length.m.stack.index))
       IN  Commit(IF length.v = -1 THEN stop(fetched, "RuntimeError")
                  ELSE IF start < 0 THEN stop(length.m, "Fault")
                  ELSE push(set_index(r.m, start), r.v))

\* OP_INDEX_CALL with an index outside the array treated as an error.
op_index_call_checked ==
    /\ instruction = OP_INDEX_CALL
    /\ LET b == last(fetched)
           m1 == pop(fetched)
           a == last(m1)
           m2 == pop(m1)
       IN  Commit(IF m1.result # "Running" THEN m1
                  ELSE IF b.t # "Integer" THEN stop(m1, "RuntimeError")
                  ELSE IF m2.result # "Running" THEN m2
                  ELSE IF a.t # "Array" THEN stop(m2, "RuntimeError")
                  ELSE LET v == Vec_get(m2.heap.arrays[a.v], b.v) IN
                       IF IsSome(v) THEN push(m2, v[1]) ELSE stop(m2, "RuntimeError"))

\* `v as usize` of a negative i64 is at least 2^63, beyond any Vec: Vec_get
\* gives None for it as for any index >= len.
op_index_call ==
    /\ instruction = OP_INDEX_CALL
    /\ LET b == last(fetched)
           m1 == pop(fetched)
           a == last(m1)
           m2 == pop(m1)
       IN  Commit(IF m1.result # "Running" THEN m1
                  ELSE IF b.t # "Integer" THEN stop(m1, "RuntimeError")
                  ELSE IF m2.result # "Running" THEN m2
                  ELSE IF a.t # "Array" THEN stop(m2, "RuntimeError")
                  ELSE LET v == Vec_get(m2.heap.arrays[a.v], b.v) IN
                       push(m2, IF IsSome(v) THEN v[1] ELSE NullV))

\* The loop of OP_CLOSURE over the (is_local, index) pairs.
RECURSIVE closure_upvalues(_, _, _)
closure_upvalues(m, upvalues, n) ==
    IF n = 0 \/ m.result # "Running" THEN [m |-> m, v |-> upvalues]
    ELSE LET is_local == read_byte(m)
             upvalue_index == read_byte(is_local.m)
             enclosing == m.heap.closures[frame_last(m).closure].upvalues
         IN  IF is_local.v = -1 \/ upvalue_index.v = -1 THEN [m |-> stop(m, "RuntimeError"), v |-> upvalues]
             ELSE IF is_local.v = 1
             THEN LET r == capture_upvalue(upvalue_index.m, frame_last(m).sp + upvalue_index.v) IN
                  closure_upvalues(r.m, Append(upvalues, r.v), n - 1)
             ELSE IF upvalue_index.v >= Len(enclosing) THEN [m |-> stop(m, "Panic"), v |-> upvalues]
             ELSE closure_upvalues(upvalue_index.m, Append(upvalues, enclosing[upvalue_index.v + 1]), n - 1)

op_closure ==
    /\ instruction = OP_CLOSURE
    /\ LET value == read_constant(fetched) IN
       Commit(IF value.m.result # "Running" THEN value.m
              ELSE IF value.v.t # "Function" THEN stop(value.m, "Panic")
              ELSE LET r == closure_upvalues(value.m, << >>, functions[value.v.v].upvalue_count)
                       closure_object == [ClosureObject(value.v.v) EXCEPT !.upvalues = r.v]
                   IN  IF r.m.result # "Running" THEN r.m
                       ELSE push([r.m EXCEPT !.heap.closures = Append(@, closure_object)],
                                 ClosureV(Len(r.m.heap.closures) + 1)))

op_close_upvalue ==
    /\ instruction = OP_CLOSE_UPVALUE
    /\ Commit(pop(close_upvalues(fetched)))

op_get_upvalue ==
    /\ instruction = OP_GET_UPVALUE
    /\ LET upvalue_index == read_byte(fetched)
           m1 == upvalue_index.m
           upvalues == m1.heap.closures[frame_last(m1).closure].upvalues
       IN  Commit(IF upvalue_index.v = -1 THEN stop(fetched, "RuntimeError")
                  ELSE IF upvalue_index.v >= Len(upvalues) THEN stop(m1, "Panic")
                  ELSE LET u == m1.heap.upvalues[upvalues[upvalue_index.v + 1]] IN
                       IF IsSome(u.closed) THEN push(m1, u.closed[1])
                       ELSE IF IsSome(u.location)
                       THEN push(check(m1, InStack(u.location[1])), stack_get(m1, u.location[1]))
                       ELSE stop(m1, "Panic"))

\* OP_SET_UPVALUE storing into a clone of the cell: the shared cell keeps its
\* value.
op_set_upvalue_on_clone ==
    /\ instruction = OP_SET_UPVALUE
    /\ LET upvalue_index == read_byte(fetched)
           m1 == upvalue_index.m
           upvalues == m1.heap.closures[frame_last(m1).closure].upvalues
       IN  Commit(IF upvalue_index.v = -1 THEN stop(fetched, "RuntimeError")
                  ELSE IF upvalue_index.v >= Len(upvalues) THEN stop(m1, "Panic")
                  ELSE IF m1.stack.index = 0 THEN stop(m1, "Fault")
                  ELSE m1)

\* The write goes to the cell's closed field whether or not the cell is open.
op_set_upvalue ==
    /\ instruction = OP_SET_UPVALUE
    /\ LET upvalue_index == read_byte(fetched)
           m1 == upvalue_index.m
           upvalues == m1.heap.closures[frame_last(m1).closure].upvalues
       IN  Commit(IF upvalue_index.v = -1 THEN stop(fetched, "RuntimeError")
                  ELSE IF upvalue_index.v >= Len(upvalues) THEN stop(m1, "Panic")
                  ELSE IF m1.stack.index = 0 THEN stop(m1, "Fault")
                  ELSE [m1 EXCEPT !.heap.upvalues[upvalues[upvalue_index.v + 1]].closed = Some(last(m1)),
                                  !.written = Table_insert(@, m1.origin[upvalues[upvalue_index.v + 1]],
                                                           last(m1))])

op_class ==
    /\ instruction = OP_CLASS
    /\ LET name == read_string(fetched) IN
       Commit(IF name.m.result # "Running" THEN name.m
              ELSE push([name.m EXCEPT !.heap.classes = Append(@, ClassObject(name.v))],
                        ClassV(Len(name.m.heap.classes) + 1)))

\* get_prop looking in the class's methods before the instance's fields.
get_prop_method_first(m1, name) ==
    LET instance == last(m1) IN
    IF m1.result # "Running" THEN m1
    ELSE IF instance.t # "Instance" THEN stop(m1, "Panic")
    ELSE LET object == m1.heap.instances[instance.v]
             bound == bind_method(m1, object.class, name)
         IN  IF bound.bound THEN bound.m
             ELSE IF name \in DOMAIN object.fields THEN push(pop(m1), object.fields[name])
             ELSE push(pop(m1), NullV)

\* The handler of OP_GET_PROP once the name is read: the field, else the
\* bound method, else null.
get_prop(m1, name) ==
    LET instance == last(m1) IN
    IF m1.result # "Running" THEN m1
    ELSE IF instance.t # "Instance" THEN stop(m1, "Panic")
    ELSE LET object == m1.heap.instances[instance.v]
             bound == bind_method(m1, object.class, name)
         IN  IF name \in DOMAIN object.fields THEN push(pop(m1), object.fields[name])
             ELSE IF bound.bound THEN bound.m
             ELSE push(pop(m1), NullV)

op_get_prop ==
    /\ instruction = OP_GET_PROP
    /\ LET name == read_string(check(fetched, fetched.stack.index > 0)) IN
       Commit(get_prop(name.m, name.v))

op_set_prop ==
    /\ instruction = OP_SET_PROP
    /\ LET m0 == check(fetched, fetched.stack.index >= 2)
           instance == stack_get(fetched, fetched.stack.index - 2)
           name == read_string(m0)
           m1 == name.m
           value == last(fetched)
       IN  Commit(IF m1.result # "Running" THEN m1
                  ELSE IF instance.t # "Instance" THEN stop(m1, "Panic")
                  ELSE push(pop(pop([m1 EXCEPT !.heap.instances[instance.v].fields =
                                                    Table_insert(@, name.v, value)])), value))

op_method ==
    /\ instruction = OP_METHOD
    /\ LET name == read_string(check(fetched, fetched.stack.index >= 2))
           m1 == name.m
           method == last(fetched)
           class == stack_get(fetched, fetched.stack.index - 2)
       IN  Commit(IF m1.result # "Running" THEN m1
                  ELSE IF class.t # "Class" THEN stop(m1, "Panic")
                  ELSE pop([m1 EXCEPT !.heap.classes[class.v].methods = Table_insert(@, name.v, method)]))

op_invoke ==
    /\ instruction = OP_INVOKE
    /\ LET name == read_string(fetched)
           arg_count == read_byte(name.m)
       IN  Commit(IF name.m.result # "Running" THEN name.m
                  ELSE IF arg_count.v = -1 THEN stop(name.m, "RuntimeError")
                  ELSE invoke(arg_count.m, name.v, arg_count.v))

\* OP_INHERIT with the two classes taken in the other order.
op_inherit_reversed ==
    /\ instruction = OP_INHERIT
    /\ LET m0 == check(fetched, fetched.stack.index >= 2)
           super_class == last(fetched)
           sub_class == stack_get(fetched, fetched.stack.index - 2)
       IN  Commit(IF m0.result # "Running" THEN m0
                  ELSE IF super_class.t # "Class" \/ sub_class.t # "Class" THEN stop(m0, "RuntimeError")
                  ELSE pop([m0 EXCEPT !.heap.classes[sub_class.v].methods =
                                          m0.heap.classes[super_class.v].methods @@ @]))

\* Every method of the superclass is inserted into the subclass's table.
op_inherit ==
    /\ instruction = OP_INHERIT
    /\ LET m0 == check(fetched, fetched.stack.index >= 2)
           super_class == stack_get(fetched, fetched.stack.index - 2)
           sub_class == last(fetched)
       IN  Commit(IF m0.result # "Running" THEN m0
                  ELSE IF super_class.t # "Class" \/ sub_class.t # "Class" THEN stop(m0, "RuntimeError")
                  ELSE pop([m0 EXCEPT !.heap.classes[sub_class.v].methods =
                                          m0.heap.classes[super_class.v].methods @@ @]))

\* OP_SUPER_INVOKE looking the method up in the receiver's own class.
op_super_invoke_from_receiver ==
    /\ instruction = OP_SUPER_INVOKE
    /\ LET name == read_string(fetched)
           arg_count == read_byte(name.m)
           cls == last(arg_count.m)
           m1 == pop(arg_count.m)
       IN  Commit(IF name.m.result # "Running" THEN name.m
                  ELSE IF arg_count.v = -1 THEN stop(name.m, "RuntimeError")
                  ELSE IF m1.result # "Running" THEN m1
                  ELSE IF cls.t # "Class" THEN stop(m1, "RuntimeError")
                  ELSE invoke(m1, name.v, arg_count.v))

op_super_invoke ==
    /\ instruction = OP_SUPER_INVOKE
    /\ LET name == read_string(fetched)
           arg_count == read_byte(name.m)
           cls == last(arg_count.m)
           m1 == pop(arg_count.m)
       IN  Commit(IF name.m.result # "Running" THEN name.m
                  ELSE IF arg_count.v = -1 THEN stop(name.m, "RuntimeError")
                  ELSE IF m1.result # "Running" THEN m1
                  ELSE IF cls.t # "Class" THEN stop(m1, "RuntimeError")
                  ELSE invoke_from_class(m1, cls.v, name.v, arg_count.v))

op_get_super ==
    /\ instruction = OP_GET_SUPER
    /\ LET super_class == last(fetched)
           name == read_string(pop(fetched))
           m1 == name.m
       IN  Commit(IF m1.result # "Running" THEN m1
                  ELSE IF super_class.t # "Class" THEN stop(m1, "Panic")
                  ELSE LET bound == bind_method(m1, super_class.v, name.v) IN
                       IF bound.bound THEN bound.m ELSE push(pop(m1), NullV))

\* Pops the value, the index and the array, and pushes nothing.
op_index_set ==
    /\ instruction = OP_INDEX_SET
    /\ LET value == last(fetched)
           m1 == pop(fetched)
           index == last(m1)
           m2 == pop(m1)
           array == last(m2)
           m3 == pop(m2)
       IN  Commit(IF m2.result # "Running" THEN m2
                  ELSE IF index.t # "Integer" THEN stop(m2, "RuntimeError")
                  ELSE IF m3.result # "Running" THEN m3
                  ELSE IF array.t # "Array" THEN stop(m3, "RuntimeError")
                  ELSE IF ~IsSome(Vec_get(m3.heap.arrays[array.v], index.v)) THEN stop(m3, "RuntimeError")
                  ELSE [m3 EXCEPT !.heap.arrays[array.v][index.v + 1] = value])

op_constant0 == instruction = OP_CONSTANT0 /\ Commit(push(fetched, IntegerV(0)))

op_jump_if_range_end ==
    /\ instruction = OP_JUMP_IF_RANGE_END
    /\ LET range == last(fetched)
           m1 == pop(fetched)
           index == last(m1)
           m2 == pop(m1)
           offset == read_jump(m2)
       IN  Commit(IF m2.result # "Running" THEN m2
                  ELSE IF index.t # "Integer" THEN stop(m2, "Panic")
                  ELSE IF offset.v = -1 THEN stop(m2, "RuntimeError")
                  ELSE IF range.t # "Array" THEN stop(offset.m, "Panic")
                  ELSE LET v == Vec_get(offset.m.heap.arrays[range.v], index.v) IN
                       IF IsSome(v) THEN push(offset.m, v[1])
                       ELSE jump(push(offset.m, NullV), offset.v))

op_countup ==
    /\ instruction = OP_COUNTUP
    /\ LET index == read_byte(fetched)
           slot == frame_last(fetched).sp + index.v
           value == stack_get(index.m, slot)
       IN  Commit(IF index.v = -1 THEN stop(fetched, "RuntimeError")
                  ELSE IF ~InStack(slot) THEN stop(index.m, "Fault")
                  ELSE IF value.t # "Integer" THEN stop(index.m, "Panic")
                  ELSE stack_set(index.m, slot, IntegerV(value.v + 1)))

op_range ==
    /\ instruction = OP_RANGE
    /\ LET end == last(fetched)
           m1 == pop(fetched)
           start == last(m1)
           m2 == pop(m1)
           r == new_array(m2, Integers_from(start.v, end.v))
       IN  Commit(IF m1.result # "Running" THEN m1
                  ELSE IF end.t # "Integer" THEN stop(m1, "Panic")
                  ELSE IF m2.result # "Running" THEN m2
                  ELSE IF start.t # "Integer" THEN stop(m2, "Panic")
                  ELSE push(r.m, r.v))

\* The two ways out of the loop without a handler: no instruction at ip
\* (InterpretResult::End) and a byte that is no opcode (CompileError).
no_handler ==
    /\ Running
    /\ instruction \notin OP_RETURN..OP_RANGE
    /\ result' = IF instruction = -1 THEN "End" ELSE "CompileError"
    /\ UNCHANGED << prog, functions, marks, stack, frames, globals, open_upvalue, heap, output,
                    gen, origin, written, pending, entry >>

(***************************************************************************)
(* Programs.  prog names a program and its parameters; source(prog) is the *)
(* AST the parser produces for it.                                         *)
(***************************************************************************)
MaxCalls == 3

Id(name) == Identifer(name)
Num(n) == IntegerLiteral(n)
Call(name, arguments) == FunCall(Identifer(name), arguments)
Set(name, value) == ExpStmt(Assign(Identifer(name), value))

RECURSIVE Repeat(_, _)
Repeat(stmt, n) == IF n = 0 THEN << >> ELSE << stmt >> \o Repeat(stmt, n - 1)

\* fun make() { var n = 0; fun inc() { n = n + 1; return n; } return inc; }
\* var f = make(); print f(); ... (calls times)
Counter(calls) ==
    << Fun(Id("make"), << >>, Block(<<
           Var(Id("n"), Num(0)),
           Fun(Id("inc"), << >>, Block(<<
               Set("n", Infix("+", Id("n"), Num(1))),
               Return(Some(Id("n"))) >>)),
           Return(Some(Id("inc"))) >>)),
       Var(Id("f"), Call("make", << >>)) >>
    \o Repeat(PrintStmt(Call("f", << >>)), calls)

\* One statement of every kind, at the top level and inside a function.
Statements ==
    << Var(Id("g"), Num(1)),
       Block(<< Var(Id("l"), Num(2)), Set("l", Infix("+", Id("l"), Id("g"))), PrintStmt(Id("l")) >>),
       If(Infix("==", Id("g"), Num(1)), PrintStmt(Num(1)), Some(PrintStmt(Num(2)))),
       If(Infix("==", Id("g"), Num(2)), Block(<< PrintStmt(Num(3)) >>), None),
       While(Infix("<", Id("g"), Num(3)), Block(<< Set("g", Infix("+", Id("g"), Num(1))) >>)),
       For(Id("x"), RangeLiteral(Num(1), Num(2)), Block(<< PrintStmt(Id("x")) >>)),
       Fun(Id("f"), << Id("a") >>, Block(<<
           Var(Id("b"), Id("a")),
           Block(<< Var(Id("c"), Id("b")), Set("c", Num(7)) >>),
           If(Infix(">", Id("b"), Num(0)), Block(<< Var(Id("d"), Num(1)) >>), None),
           For(Id("y"), ArrayLiteral(<< Num(4) >>), Block(<< PrintStmt(Id("y")) >>)),
           Class(Id("L"), None, Block(<< >>)),
           Return(Some(Id("b"))) >>)),
       PrintStmt(Call("f", << Num(1) >>)),
       Class(Id("A"), None, Block(<< Fun(Id("m"), << >>, Block(<< Return(Some(Num(1))) >>)) >>)),
       Var(Id("o"), Call("A", << >>)),
       ExpStmt(Assign(SetProperty(Id("o"), Id("p")), Num(5))),
       PrintStmt(GetProperty(Id("o"), Id("p"))) >>

\* var a = [10, 20, 30]; a[1] = 99; print a[1];
IndexAssign ==
    << Var(Id("a"), ArrayLiteral(<< Num(10), Num(20), Num(30) >>)),
       ExpStmt(Assign(IndexCall(Id("a"), Num(1)), Num(99))),
       PrintStmt(IndexCall(Id("a"), Num(1))) >>

\* fun noop() {}
\* fun outer() { var x = 0; fun inc() { x = x + 1; } [noop();] fun get() { return x; }
\*               inc(); print get(); }
\* outer(); print get();
\* with the call of noop between the two declarations when between = 1.
Shared(between) ==
    << Fun(Id("noop"), << >>, Block(<< >>)),
       Fun(Id("outer"), << >>, Block(
           << Var(Id("x"), Num(0)),
              Fun(Id("inc"), << >>, Block(<< Set("x", Infix("+", Id("x"), Num(1))) >>)) >>
           \o (IF between = 1 THEN << ExpStmt(Call("noop", << >>)) >> ELSE << >>)
           \o << Fun(Id("get"), << >>, Block(<< Return(Some(Id("x"))) >>)),
                 ExpStmt(Call("inc", << >>)),
                 PrintStmt(Call("get", << >>)) >>)),
       ExpStmt(Call("outer", << >>)),
       PrintStmt(Call("get", << >>)) >>

\* this.tag = n;
Tag(n) == Block(<< ExpStmt(Assign(SetProperty(Id("this"), Id("tag")), Num(n))) >>)

\* class A { fun m() { this.tag = 1; } }
\* class B < A { fun m() { this.tag = 2; }
\*               fun viaSuper() { super.m(); }
\*               fun viaGet() { var g = super.m; g(); } }
\* var a = A(); var b = B(); var c = B(); var d = B();
\* a.m(); b.m(); c.viaSuper(); d.viaGet();
\* print a.tag; print b.tag; print c.tag; print d.tag;
Inherit ==
    << Class(Id("A"), None, Block(<< Fun(Id("m"), << >>, Tag(1)) >>)),
       Class(Id("B"), Some(Id("A")), Block(<<
           Fun(Id("m"), << >>, Tag(2)),
           Fun(Id("viaSuper"), << >>, Block(<< ExpStmt(InvokeSuperMethod(Id("m"), << >>)) >>)),
           Fun(Id("viaGet"), << >>, Block(<<
               Var(Id("g"), GetSuperProperty(Id("m"))),
               ExpStmt(Call("g", << >>)) >>)) >>)),
       Var(Id("a"), Call("A", << >>)),
       Var(Id("b"), Call("B", << >>)),
       Var(Id("c"), Call("B", << >>)),
       Var(Id("d"), Call("B", << >>)),
       ExpStmt(InvokeMethod(Id("a"), Id("m"), << >>)),
       ExpStmt(InvokeMethod(Id("b"), Id("m"), << >>)),
       ExpStmt(InvokeMethod(Id("c"), Id("viaSuper"), << >>)),
       ExpStmt(InvokeMethod(Id("d"), Id("viaGet"), << >>)),
       PrintStmt(GetProperty(Id("a"), Id("tag"))),
       PrintStmt(GetProperty(Id("b"), Id("tag"))),
       PrintStmt(GetProperty(Id("c"), Id("tag"))),
       PrintStmt(GetProperty(Id("d"), Id("tag"))) >>

\* fun f(a) { if (a > 0) { print a; } else { print 0; }
\*             while (a < 2) { a = a + 1; }
\*             for (y in 1 to 2) print y;
\*             return a == 2 and (false or a); }
\* print f(1);
\* var g = 1;
\* if (g == 1) print 1;
Jumps ==
    << Fun(Id("f"), << Id("a") >>, Block(<<
           If(Infix(">", Id("a"), Num(0)), Block(<< PrintStmt(Id("a")) >>),
              Some(Block(<< PrintStmt(Num(0)) >>))),
           While(Infix("<", Id("a"), Num(2)), Block(<< Set("a", Infix("+", Id("a"), Num(1))) >>)),
           For(Id("y"), RangeLiteral(Num(1), Num(2)), PrintStmt(Id("y"))),
           Return(Some(Logical("and", Infix("==", Id("a"), Num(2)),
                               Logical("or", BooleanLiteral(FALSE), Id("a"))))) >>)),
       PrintStmt(Call("f", << Num(1) >>)),
       Var(Id("g"), Num(1)),
       If(Infix("==", Id("g"), Num(1)), PrintStmt(Num(1)), None) >>

MaxRange == 3

\* [10, 20, ..., 10 * n]
Elements(n) == ArrayLiteral([i \in 1..n |-> Num(10 * i)])

\* for (x in a to b) print x;
ForTo(a, b) == << For(Id("x"), RangeLiteral(Num(a), Num(b)), PrintStmt(Id("x"))) >>

\* for (x in [10, ..., 10 * n]) { print x; }
ForArray(n) == << For(Id("x"), Elements(n), Block(<< PrintStmt(Id("x")) >>)) >>

\* for (x in 1 to a) { for (y in 1 to b) print x * 10 + y; }
ForNested(a, b) ==
    << For(Id("x"), RangeLiteral(Num(1), Num(a)), Block(<<
           For(Id("y"), RangeLiteral(Num(1), Num(b)),
               PrintStmt(Infix("+", Infix("*", Id("x"), Num(10)), Id("y")))) >>)) >>

\* fun show(v) { print v; return v; }
\* for (x in [10, ..., 10 * n]) var y = show(x);
ForVar(n) ==
    << Fun(Id("show"), << Id("v") >>, Block(<< PrintStmt(Id("v")), Return(Some(Id("v"))) >>)),
       For(Id("x"), Elements(n), Var(Id("y"), Call("show", << Id("x") >>))) >>

\* fun f(a, b) { var t = a + b; return t; }
\* class P { fun init(v) { this.v = v; } fun get() { return this.v; } }
\* class Q {}
\* print f(1, 2); print len([1, 2, 3]); var q = Q(); var p = P(7);
\* var g = p.get; print g(); print p.get();
Calls ==
    << Fun(Id("f"), << Id("a"), Id("b") >>, Block(<<
           Var(Id("t"), Infix("+", Id("a"), Id("b"))),
           Return(Some(Id("t"))) >>)),
       Class(Id("P"), None, Block(<<
           Fun(Id("init"), << Id("v") >>,
               Block(<< ExpStmt(Assign(SetProperty(Id("this"), Id("v")), Id("v"))) >>)),
           Fun(Id("get"), << >>, Block(<< Return(Some(GetProperty(Id("this"), Id("v")))) >>)) >>)),
       Class(Id("Q"), None, Block(<< >>)),
       PrintStmt(Call("f", << Num(1), Num(2) >>)),
       PrintStmt(Call("len", << ArrayLiteral(<< Num(1), Num(2), Num(3) >>) >>)),
       Var(Id("q"), Call("Q", << >>)),
       Var(Id("p"), Call("P", << Num(7) >>)),
       Var(Id("g"), GetProperty(Id("p"), Id("get"))),
       PrintStmt(Call("g", << >>)),
       PrintStmt(InvokeMethod(Id("p"), Id("get"), << >>)) >>

\* class A { fun m(a) {} }     (with init in place of m for "arity_init",
\*                              and with an empty body for "arity_class")
ClassA(method) ==
    Class(Id("A"), None,
          Block(IF method = "" THEN << >>
                ELSE << Fun(Id(method), << Id("a") >>, Block(<< >>)) >>))

\* One call with the wrong number of arguments on each call path.
Arity(path) ==
    CASE path = "arity_closure" ->      \* fun f(a) {} f();
            << Fun(Id("f"), << Id("a") >>, Block(<< >>)), ExpStmt(Call("f", << >>)) >>
      [] path = "arity_bound" ->        \* var o = A(); var g = o.m; g();
            << ClassA("m"), Var(Id("o"), Call("A", << >>)),
               Var(Id("g"), GetProperty(Id("o"), Id("m"))), ExpStmt(Call("g", << >>)) >>
      [] path = "arity_init" ->         \* A();
            << ClassA("init"), ExpStmt(Call("A", << >>)) >>
      [] path = "arity_class" ->        \* A(1);
            << ClassA(""), ExpStmt(Call("A", << Num(1) >>)) >>
      [] path = "arity_invoke" ->       \* var o = A(); o.m();
            << ClassA("m"), Var(Id("o"), Call("A", << >>)),
               ExpStmt(InvokeMethod(Id("o"), Id("m"), << >>)) >>
      [] path = "arity_super" ->        \* class B < A { fun n() { super.m(); } } var o = B(); o.n();
            << ClassA("m"),
               Class(Id("B"), Some(Id("A")), Block(<<
                   Fun(Id("n"), << >>, Block(<< ExpStmt(InvokeSuperMethod(Id("m"), << >>)) >>)) >>)),
               Var(Id("o"), Call("B", << >>)),
               ExpStmt(InvokeMethod(Id("o"), Id("n"), << >>)) >>
ArityPaths ==
    {"arity_closure", "arity_bound", "arity_init", "arity_class", "arity_invoke", "arity_super"}

\* print -(7 - 2) * 3 / 2 % 4; print !(1 > 2); print 1 != 2; print null; print !true;
\* var a = [5, 6]; print a[1]; print "s" ^ 2;
Operators ==
    << PrintStmt(Infix("%", Infix("/", Infix("*", Prefix("-", Infix("-", Num(7), Num(2))), Num(3)),
                                  Num(2)), Num(4))),
       PrintStmt(Prefix("!", Infix(">", Num(1), Num(2)))),
       PrintStmt(Infix("!=", Num(1), Num(2))),
       PrintStmt(NullLiteral),
       PrintStmt(Prefix("!", BooleanLiteral(TRUE))),
       Var(Id("a"), ArrayLiteral(<< Num(5), Num(6) >>)),
       PrintStmt(IndexCall(Id("a"), Num(1))),
       PrintStmt(Infix("^", StringLiteral("s"), Num(2))) >>

\* fun f() { f(); } f();          (params = 0)
\* fun f(a) { f(a); } f(1);       (params = 1)
Recurse(params) ==
    LET names == [i \in 1..params |-> Id("a")]
        arguments == [i \in 1..params |-> Id("a")]
    IN  << Fun(Id("f"), names, Block(<< ExpStmt(Call("f", arguments)) >>)),
           ExpStmt(Call("f", [i \in 1..params |-> Num(1)])) >>

MaxOperand == 2
MaxArgc == 1
\* print a / b;     ("divide")        print a % b;     ("rem")
Quotient(ope, a, b) == << PrintStmt(Infix(ope, Num(a), Num(b))) >>

\* The parser's tree for an integer literal with a sign.
Literal(n) == IF n < 0 THEN Prefix("-", Num(-n)) ELSE Num(n)
\* class A { fun m() {} } var a = [10, 20]; var o = A(); o.f = 1;
\* print a[i]; print o.g; print o.f; print 7;
Missing(i) ==
    << Class(Id("A"), None, Block(<< Fun(Id("m"), << >>, Block(<< >>)) >>)),
       Var(Id("a"), ArrayLiteral(<< Num(10), Num(20) >>)),
       Var(Id("o"), Call("A", << >>)),
       ExpStmt(Assign(SetProperty(Id("o"), Id("f")), Num(1))),
       PrintStmt(IndexCall(Id("a"), Literal(i))),
       PrintStmt(GetProperty(Id("o"), Id("g"))),
       PrintStmt(GetProperty(Id("o"), Id("f"))),
       PrintStmt(Num(7)) >>

\* class A {} class B < A { fun n() { super.x(); } } var o = B(); o.n();
\* (fetch = 1: { print super.x; } in place of the body of n)
SuperMissing(fetch) ==
    << Class(Id("A"), None, Block(<< >>)),
       Class(Id("B"), Some(Id("A")), Block(<<
           Fun(Id("n"), << >>, Block(<<
               IF fetch = 1 THEN PrintStmt(GetSuperProperty(Id("x")))
               ELSE ExpStmt(InvokeSuperMethod(Id("x"), << >>)) >>)) >>)),
       Var(Id("o"), Call("B", << >>)),
       ExpStmt(InvokeMethod(Id("o"), Id("n"), << >>)) >>

\* { var a = 1; var a = 2; }     (kind = 0)
\* class A < A {}                 (kind = 1)
CompileFail(kind) ==
    IF kind = 0 THEN << Block(<< Var(Id("a"), Num(1)), Var(Id("a"), Num(2)) >>) >>
    ELSE << Class(Id("A"), Some(Id("A")), Block(<< >>)) >>

\* print 1; print 2;               (returns = 0)
\* print 1; return; print 2;       (returns = 1)
TopReturn(returns) ==
    << PrintStmt(Num(1)) >> \o Repeat(Return(None), returns) \o << PrintStmt(Num(2)) >>

\* { fun g() { return 1; } } print g();                       (inside = 0)
\* fun outer() { fun g() { return 1; } } outer(); print g();    (inside = 1)
NestedFun(inside) ==
    LET g == Fun(Id("g"), << >>, Block(<< Return(Some(Num(1))) >>)) IN
    (IF inside = 0 THEN << Block(<< g >>) >>
     ELSE << Fun(Id("outer"), << >>, Block(<< g >>)), ExpStmt(Call("outer", << >>)) >>)
    \o << PrintStmt(Call("g", << >>)) >>

\* var x = 1;                                                   (part = 0)
\* fun f(p) {
\*   var y = 3;
\*   { var x = 4; print x; print y; print p; x = 5; print x; { var y = 8; print y; } print y; }
\*   print x; x = 7;
\* }
\* f(2); print x;
\*
\* var x = 1;                                                   (part = 1)
\* fun f(p) {
\*   var y = 3;
\*   fun g() { print y; print p; print x; { var y = 6; print y; }
\*             fun h() { print y; } h(); }
\*   g();
\* }
\* f(2);
Resolve(part) ==
    << Var(Id("x"), Num(1)),
       Fun(Id("f"), << Id("p") >>, Block(
           << Var(Id("y"), Num(3)) >> \o
           (IF part = 0
            THEN << Block(<< Var(Id("x"), Num(4)),
                             PrintStmt(Id("x")), PrintStmt(Id("y")), PrintStmt(Id("p")),
                             Set("x", Num(5)), PrintStmt(Id("x")),
                             Block(<< Var(Id("y"), Num(8)), PrintStmt(Id("y")) >>),
                             PrintStmt(Id("y")) >>),
                    PrintStmt(Id("x")),
                    Set("x", Num(7)) >>
            ELSE << Fun(Id("g"), << >>, Block(<<
                        PrintStmt(Id("y")), PrintStmt(Id("p")), PrintStmt(Id("x")),
                        Block(<< Var(Id("y"), Num(6)), PrintStmt(Id("y")) >>),
                        Fun(Id("h"), << >>, Block(<< PrintStmt(Id("y")) >>)),
                        ExpStmt(Call("h", << >>)) >>)),
                    ExpStmt(Call("g", << >>)) >>))),
       ExpStmt(Call("f", << Num(2) >>)) >>
    \o (IF part = 0 THEN << PrintStmt(Id("x")) >> ELSE << >>)

\* fun f() { if (false) var y = 1; var z = 2; print z; } f();
\* (taken = 1: if (true))
ResolveAfterIf(taken) ==
    << Fun(Id("f"), << >>, Block(<<
           If(BooleanLiteral(taken = 1), Var(Id("y"), Num(1)), None),
           Var(Id("z"), Num(2)),
           PrintStmt(Id("z")) >>)),
       ExpStmt(Call("f", << >>)) >>

\* { var a = 1; { var a = 2; print a; } print a; }            (kind = 0)
\* fun f(a) { var a = 1; print a; } f(5);                     (kind = 1)
\* fun f(a) { { var a = 1; print a; } print a; } f(5);        (kind = 2)
\* { var a = 1; { var b = 2; } var a = 3; }                   (kind = 3)
Shadow(kind) ==
    LET inner == << Var(Id("a"), Num(1)), PrintStmt(Id("a")) >> IN
    CASE kind = 0 -> << Block(<< Var(Id("a"), Num(1)),
                                 Block(<< Var(Id("a"), Num(2)), PrintStmt(Id("a")) >>),
                                 PrintStmt(Id("a")) >>) >>
      [] kind = 1 -> << Fun(Id("f"), << Id("a") >>, Block(inner)),
                        ExpStmt(Call("f", << Num(5) >>)) >>
      [] kind = 2 -> << Fun(Id("f"), << Id("a") >>, Block(<< Block(inner), PrintStmt(Id("a")) >>)),
                        ExpStmt(Call("f", << Num(5) >>)) >>
      [] OTHER -> << Block(<< Var(Id("a"), Num(1)),
                              Block(<< Var(Id("b"), Num(2)) >>),
                              Var(Id("a"), Num(3)) >>) >>

\* print a == b; print a < b; print a > b; print b == a; print b < a; print b > a;
\* with the integer literal a and the float literal b of halves halves
\* (0.0, 0.5, 1.0, ...).
Compare(a, halves) ==
    << PrintStmt(Infix("==", Num(a), FloatLiteral(halves))),
       PrintStmt(Infix("<", Num(a), FloatLiteral(halves))),
       PrintStmt(Infix(">", Num(a), FloatLiteral(halves))),
       PrintStmt(Infix("==", FloatLiteral(halves), Num(a))),
       PrintStmt(Infix("<", FloatLiteral(halves), Num(a))),
       PrintStmt(Infix(">", FloatLiteral(halves), Num(a))) >>

\* fun outer() { var x = 0; fun set(v) { x = v; } fun get() { return x; }
\*               W1 print x; print get(); W2 print x; print get(); }
\* outer();
\* where Wi is `x = i;` (first, second = 0) or `set(i);` (first, second = 1).
OneVariable(first, second) ==
    LET write(by, value) == IF by = 0 THEN Set("x", Num(value))
                            ELSE ExpStmt(Call("set", << Num(value) >>))
        reads == << PrintStmt(Id("x")), PrintStmt(Call("get", << >>)) >>
    IN  << Fun(Id("outer"), << >>, Block(
               << Var(Id("x"), Num(0)),
                  Fun(Id("set"), << Id("v") >>, Block(<< Set("x", Id("v")) >>)),
                  Fun(Id("get"), << >>, Block(<< Return(Some(Id("x"))) >>)),
                  write(first, 1) >> \o reads \o << write(second, 2) >> \o reads)),
           ExpStmt(Call("outer", << >>)) >>

\* fun f() { var y = 0; fun g() { fun h() { y = 1; } h(); print y; } g(); } f();
\*     (inner = 1: h writes, g reads; later = 0: g runs while f is running)
\* fun f() { var y = 0; fun g() { fun h() { print y; } y = 1; h(); } g(); } f();
\*     (inner = 0: g writes, h reads)
\* later = 1: `g();` follows `f();` at the top level instead of being in f.
NestedCapture(inner, later) ==
    LET h == IF inner = 1 THEN Set("y", Num(1)) ELSE PrintStmt(Id("y"))
        g == IF inner = 1 THEN PrintStmt(Id("y")) ELSE Set("y", Num(1))
        call(name) == ExpStmt(Call(name, << >>))
    IN  << Fun(Id("f"), << >>, Block(
               << Var(Id("y"), Num(0)),
                  Fun(Id("g"), << >>, Block(
                      << Fun(Id("h"), << >>, Block(<< h >>)) >>
                      \o (IF inner = 1 THEN << call("h"), g >> ELSE << g, call("h") >>))) >>
               \o (IF later = 0 THEN << call("g") >> ELSE << >>))),
           call("f") >>
        \o (IF later = 1 THEN << call("g") >> ELSE << >>)

\* class A { fun m() { return 1; } fun m1(a) { return a; } }
\* fun g() { return 7; }
\* var o = A(); o.f = g; o.k = 5;
\* print o.NAME(...);       with NAME = InvokeNames[which] and argc arguments
InvokeNames == << "m", "m1", "f", "k", "x" >>
Invoke(which, argc) ==
    << Class(Id("A"), None, Block(
           << Fun(Id("m"), << >>, Block(<< Return(Some(Num(1))) >>)),
              Fun(Id("m1"), << Id("a") >>, Block(<< Return(Some(Id("a"))) >>)) >>)),
       Fun(Id("g"), << >>, Block(<< Return(Some(Num(7))) >>)),
       Var(Id("o"), Call("A", << >>)),
       ExpStmt(Assign(SetProperty(Id("o"), Id("f")), Id("g"))),
       ExpStmt(Assign(SetProperty(Id("o"), Id("k")), Num(5))),
       PrintStmt(InvokeMethod(Id("o"), Id(InvokeNames[which]), [i \in 1..argc |-> Num(i + 1)])) >>

\* class A { fun m() { return 1; } }
\* fun g() { return 7; }
\* var o = A(); o.m = g;
\* var p = o.m; print p();
\* print o.m();
FieldShadows ==
    << Class(Id("A"), None, Block(<< Fun(Id("m"), << >>, Block(<< Return(Some(Num(1))) >>)) >>)),
       Fun(Id("g"), << >>, Block(<< Return(Some(Num(7))) >>)),
       Var(Id("o"), Call("A", << >>)),
       ExpStmt(Assign(SetProperty(Id("o"), Id("m")), Id("g"))) >>
    \o << Var(Id("p"), GetProperty(Id("o"), Id("m"))),
          PrintStmt(Call("p", << >>)),
          PrintStmt(InvokeMethod(Id("o"), Id("m"), << >>)) >>

\* class A { fun a() { return 1; } fun b() { return 2; } }
\* class B < A { [fun a() { return 11; }] [fun b() { return 12; }] fun c() { return 13; } }
\* var o = B(); print o.a(); print o.b();
\* B's body defines a when own_a = 1 and b when own_b = 1.
Returns(name, value) == Fun(Id(name), << >>, Block(<< Return(Some(Num(value))) >>))
Inherits(own_a, own_b) ==
    << Class(Id("A"), None, Block(<< Returns("a", 1), Returns("b", 2) >>)),
       Class(Id("B"), Some(Id("A")), Block(
           (IF own_a = 1 THEN << Returns("a", 11) >> ELSE << >>)
           \o (IF own_b = 1 THEN << Returns("b", 12) >> ELSE << >>)
           \o << Returns("c", 13) >>)),
       Var(Id("o"), Call("B", << >>)),
       PrintStmt(InvokeMethod(Id("o"), Id("a"), << >>)),
       PrintStmt(InvokeMethod(Id("o"), Id("b"), << >>)) >>

\* class A { fun a() { return 1; } }
\* then, at the top level (place = 0), in a block (1) or in a function (2),
\* the latter two after `var before = 5;`:
\*     print 100;
\*     class B [< A] { [fun b() { return 12; }] [fun c() { return super.a(); | return 13; }] }
\*     print 101;
\*     var after = 6; print after;
\* shape = 3 * (1 with a superclass) + the number of methods.
ShapedClass(shape) ==
    LET has_super == shape \div 3 = 1
        methods == << Returns("b", 12),
                      IF has_super
                      THEN Fun(Id("c"), << >>, Block(<< Return(Some(InvokeSuperMethod(Id("a"), << >>))) >>))
                      ELSE Returns("c", 13) >>
    IN  Class(Id("B"), IF has_super THEN Some(Id("A")) ELSE None, Block(SubSeq(methods, 1, shape % 3)))
ClassShape(shape, place) ==
    LET declaration == << PrintStmt(Num(100)), ShapedClass(shape), PrintStmt(Num(101)),
                          Var(Id("after"), Num(6)), PrintStmt(Id("after")) >>
        scoped == << Var(Id("before"), Num(5)) >> \o declaration \o << PrintStmt(Id("before")) >>
    IN  << Class(Id("A"), None, Block(<< Returns("a", 1) >>)) >>
        \o (IF place = 0 THEN declaration
            ELSE IF place = 1 THEN << Block(scoped) >>
            ELSE << Fun(Id("f"), << >>, Block(scoped)), ExpStmt(Call("f", << >>)) >>)

\* var n = 0;
\* fun b() { n = n + 1; return 9; }
\* print LEFT and b();          (print LEFT or b(); for ope = "or")
\* print n;
LeftOperands == << BooleanLiteral(FALSE), NullLiteral, BooleanLiteral(TRUE), Num(0) >>
LogicalOpes == << "and", "or" >>
Logic(ope, left) ==
    << Var(Id("n"), Num(0)),
       Fun(Id("b"), << >>, Block(<< ExpStmt(Assign(Id("n"), Infix("+", Id("n"), Num(1)))),
                                    Return(Some(Num(9))) >>)),
       PrintStmt(Logical(LogicalOpes[ope], LeftOperands[left], Call("b", << >>))),
       PrintStmt(Id("n")) >>

\* print super.x;                      (place = 0)
\* fun f() { print super.x; } f();     (place = 1)
SuperOutside(place) ==
    IF place = 0 THEN << PrintStmt(GetSuperProperty(Id("x"))) >>
    ELSE << Fun(Id("f"), << >>, Block(<< PrintStmt(GetSuperProperty(Id("x"))) >>)),
            ExpStmt(Call("f", << >>)) >>

\* class A { fun who(a) { return this.id + a; } }
\* var o1 = A(); o1.id = 1;
\* var o2 = A(); o2.id = 2;
\* var m = o1.who;
\* print m(10);                        (how = 0)
\* o2.who = m; print o2.who(10);       (how = 1)
\* o1 = o2; print m(10);               (how = 2)
\* var k = m; m = 0; print k(10);      (how = 3)
Bound(how) ==
    << Class(Id("A"), None, Block(<<
           Fun(Id("who"), << Id("a") >>,
               Block(<< Return(Some(Infix("+", GetProperty(Id("this"), Id("id")), Id("a")))) >>)) >>)),
       Var(Id("o1"), Call("A", << >>)),
       ExpStmt(Assign(SetProperty(Id("o1"), Id("id")), Num(1))),
       Var(Id("o2"), Call("A", << >>)),
       ExpStmt(Assign(SetProperty(Id("o2"), Id("id")), Num(2))),
       Var(Id("m"), GetProperty(Id("o1"), Id("who"))) >>
    \o CASE how = 0 -> << PrintStmt(Call("m", << Num(10) >>)) >>
         [] how = 1 -> << ExpStmt(Assign(SetProperty(Id("o2"), Id("who")), Id("m"))),
                          PrintStmt(InvokeMethod(Id("o2"), Id("who"), << Num(10) >>)) >>
         [] how = 2 -> << ExpStmt(Assign(Id("o1"), Id("o2"))),
                          PrintStmt(Call("m", << Num(10) >>)) >>
         [] how = 3 -> << Var(Id("k"), Id("m")),
                          ExpStmt(Assign(Id("m"), Num(0))),
                          PrintStmt(Call("k", << Num(10) >>)) >>

\* class A { fun init() { this.v = 1; RETURN } }
\* var o = A();
\* print o.v;
\* RETURN is nothing (returns = 0), `return;` (1) or `return 5;` (2).
InitReturns(returns) ==
    << Class(Id("A"), None, Block(<<
           Fun(Id("init"), << >>, Block(
               << ExpStmt(Assign(SetProperty(Id("this"), Id("v")), Num(1))) >>
               \o CASE returns = 0 -> << >>
                    [] returns = 1 -> << Return(None) >>
                    [] returns = 2 -> << Return(Some(Num(5))) >>)) >>)),
       Var(Id("o"), Call("A", << >>)),
       PrintStmt(GetProperty(Id("o"), Id("v"))) >>

Program(name, n, m) == [name |-> name, n |-> n, m |-> m]
ForPrograms == {"for_to", "for_array", "for_nested", "for_var"}
ProgramIds ==
    {Program("counter", k, 0) : k \in 1..MaxCalls}
    \cup {Program(name, 0, 0) : name \in {"statements", "index_assign", "inherit", "jumps",
                                           "calls", "operators"} \cup ArityPaths}
    \cup {Program("shared", k, 0) : k \in 0..1}
    \cup {Program("recurse", k, 0) : k \in 0..1}
    \cup {Program("resolve", k, 0) : k \in 0..1}
    \cup {Program("resolve_after_if", k, 0) : k \in 0..1}
    \cup {Program("shadow", k, 0) : k \in 0..3}
    \cup {Program("field_shadows", 0, 0)}
    \cup {Program("init_returns", returns, 0) : returns \in 0..2}
    \cup {Program("bound", how, 0) : how \in 0..3}
    \cup {Program("super_outside", place, 0) : place \in 0..1}
    \cup {Program("logic", ope, left) : ope \in DOMAIN LogicalOpes, left \in DOMAIN LeftOperands}
    \cup {Program("class_shape", shape, place) : shape \in 0..5, place \in 0..2}
    \cup {Program("inherits", own_a, own_b) : own_a, own_b \in 0..1}
    \cup {Program("invoke", which, argc) : which \in DOMAIN InvokeNames, argc \in 0..MaxArgc}
    \cup {Program("nested_capture", a, b) : a \in 0..1, b \in 0..1}
    \cup {Program("one_variable", a, b) : a \in 0..1, b \in 0..1}
    \cup {Program("compare", a, h) : a \in 0..MaxOperand, h \in 0..(2 * MaxOperand)}
    \cup {Program("nested_fun", k, 0) : k \in 0..1}
    \cup {Program("top_return", k, 0) : k \in 0..1}
    \cup {Program("compile_fail", k, 0) : k \in 0..1}
    \cup {Program("super_missing", k, 0) : k \in 0..1}
    \cup {Program("missing", i, 0) : i \in (-MaxOperand)..(MaxOperand + 1)}
    \cup {Program(name, a, b) : name \in {"divide", "rem"}, a \in 0..MaxOperand, b \in 0..MaxOperand}
    \cup {Program("for_to", a, b) : a \in 0..MaxRange, b \in 0..MaxRange}
    \cup {Program(name, n, 0) : name \in {"for_array", "for_var"}, n \in 0..MaxRange}
    \cup {Program("for_nested", a, b) : a \in 1..MaxRange, b \in 1..MaxRange}

source(p) ==
    CASE p.name = "counter" -> Counter(p.n)
      [] p.name = "statements" -> Statements
      [] p.name = "index_assign" -> IndexAssign
      [] p.name = "shared" -> Shared(p.n)
      [] p.name = "inherit" -> Inherit
      [] p.name = "jumps" -> Jumps
      [] p.name = "calls" -> Calls
      [] p.name = "operators" -> Operators
      [] p.name = "recurse" -> Recurse(p.n)
      [] p.name = "resolve" -> Resolve(p.n)
      [] p.name = "resolve_after_if" -> ResolveAfterIf(p.n)
      [] p.name = "shadow" -> Shadow(p.n)
      [] p.name = "field_shadows" -> FieldShadows
      [] p.name = "init_returns" -> InitReturns(p.n)
      [] p.name = "bound" -> Bound(p.n)
      [] p.name = "super_outside" -> SuperOutside(p.n)
      [] p.name = "logic" -> Logic(p.n, p.m)
      [] p.name = "class_shape" -> ClassShape(p.n, p.m)
      [] p.name = "inherits" -> Inherits(p.n, p.m)
      [] p.name = "invoke" -> Invoke(p.n, p.m)
      [] p.name = "nested_capture" -> NestedCapture(p.n, p.m)
      [] p.name = "one_variable" -> OneVariable(p.n, p.m)
      [] p.name = "compare" -> Compare(p.n, p.m)
      [] p.name = "nested_fun" -> NestedFun(p.n)
      [] p.name = "top_return" -> TopReturn(p.n)
      [] p.name = "compile_fail" -> CompileFail(p.n)
      [] p.name = "super_missing" -> SuperMissing(p.n)
      [] p.name = "divide" -> Quotient("/", p.n, p.m)
      [] p.name = "missing" -> Missing(p.n)
      [] p.name = "rem" -> Quotient("%", p.n, p.m)
      [] p.name \in ArityPaths -> Arity(p.name)
      [] p.name = "for_to" -> ForTo(p.n, p.m)
      [] p.name = "for_array" -> ForArray(p.n)
      [] p.name = "for_nested" -> ForNested(p.n, p.m)
      [] p.name = "for_var" -> ForVar(p.n)

(***************************************************************************)
(* main (src/main.rs): compile, VM::new, interpret.                        *)
(***************************************************************************)
register_native(table) == [name \in NativeNames |-> NativeV(name)] @@ table

\* What the compiler makes of each program.
compiled_programs == [p \in ProgramIds |-> compile(source(p))]

main ==
    /\ result = "Start"
    /\ LET compiled == compiled_programs[prog]
           script == Len(compiled.functions)
       IN  /\ functions' = compiled.functions
           /\ marks' = compiled.marks
           /\ IF compiled.err # ""
              THEN /\ result' = "Panic"
                   /\ UNCHANGED << stack, frames, globals, heap, entry >>
              ELSE /\ result' = "Running"
                   /\ heap' = [heap EXCEPT !.closures = << ClosureObject(script) >>]
                   /\ stack' = [StackArray_set(StackArray_new, 0, ClosureV(1)) EXCEPT !.index = 1]
                   /\ frames' = << CallFrame(1, 0, 0) >>
                   /\ globals' = register_native(Table_new)
                   /\ entry' = {[frame |-> 1, stmt |-> i, depth |-> 1] :
                                    i \in {j \in 1..Len(compiled.marks[script]) :
                                              compiled.marks[script][j].start = 0}}
    /\ UNCHANGED << prog, open_upvalue, output, gen, origin, written, pending >>

\* The statuses the process can exit with once main is over: the ExitCode of
\* main's match on the InterpretResult; for a panic the status the build's
\* panic strategy gives (101 unwinding, 134 aborting); anything after
\* undefined behaviour or an operation that is not modelled.
exit_codes ==
    CASE result \in {"Ok", "End"} -> {0}
      [] result = "CompileError" -> {8}
      [] result = "RuntimeError" -> {101}
      [] result = "Panic" -> {101, 134}
      [] OTHER -> 0..255

Init ==
    /\ prog \in ProgramIds
    /\ functions = << >>
    /\ marks = << >>
    /\ stack = StackArray_new
    /\ frames = << >>
    /\ globals = Table_new
    /\ open_upvalue = None
    /\ heap = Heap_new
    /\ result = "Start"
    /\ output = << >>
    /\ gen = << >>
    /\ origin = << >>
    /\ written = Table_new
    /\ pending = << >>
    /\ entry = {}

Next ==
    \/ main
    \/ op_return \/ op_constant \/ op_negative \/ op_add \/ op_subtract \/ op_multiply
    \/ op_divide \/ op_rem \/ op_pow \/ op_true \/ op_false \/ op_null \/ op_not
    \/ op_greater \/ op_less \/ op_equal \/ op_print \/ op_pop
    \/ op_define_global \/ op_get_global \/ op_set_global \/ op_get_local \/ op_set_local
    \/ op_jump_if_false \/ op_jump \/ op_loop \/ op_call \/ op_array \/ op_index_call
    \/ op_closure \/ op_close_upvalue \/ op_get_upvalue \/ op_set_upvalue
    \/ op_class \/ op_get_prop \/ op_set_prop \/ op_method \/ op_invoke \/ op_inherit
    \/ op_super_invoke \/ op_get_super \/ op_index_set \/ op_constant0
    \/ op_jump_if_range_end \/ op_countup \/ op_range
    \/ no_handler

Spec == Init /\ [][Next]_vars

(***************************************************************************)
(* Properties.                                                             *)
(***************************************************************************)
statement_of(e) == marks[current_function][e.stmt]
\* The top frame has just left the code of statement e at its end.
Completed(e) ==
    /\ result \in {"Running", "End"}
    /\ e.frame = Len(frames)
    /\ statement_of(e).end = get_current_ip

\* C1: when the compiled code of a statement of any kind has run to its end,
\* the stack depth is the depth at which the statement was entered plus one
\* for each local the statement declared in the current scope.
StatementRestoresDepth ==
    \A e \in entry :
        Completed(e) =>
            stack.index = e.depth + statement_of(e).locals_after - statement_of(e).locals_before

cells == 1..Len(heap.upvalues)
\* What OP_GET_UPVALUE reads through a cell.
upvalue_read(c) ==
    LET u == heap.upvalues[c] IN
    IF IsSome(u.closed) THEN u.closed[1]
    ELSE IF IsSome(u.location) THEN StackArray_get(stack, u.location[1])
    ELSE NullV

\* C2: two captures of one variable (one activation of a slot) get one cell,
\* whatever ran between the two OP_CLOSUREs, and the value stored into the
\* variable through a closure is the value every closure reads from it, while
\* the scope is live and after it has been closed.
ClosuresShareVariable ==
    /\ \A c1, c2 \in cells : origin[c1] = origin[c2] => c1 = c2
    /\ \A c \in cells : origin[c] \in DOMAIN written => upvalue_read(c) = written[origin[c]]

\* C3: a cell is open exactly as long as the variable it captured is in
\* scope (it is closed in the step that pops the slot, not before and not
\* after); a closed cell stays closed, and its value changes only by a store
\* through a closure, whatever is written to its former slot.
CellClosesOnceWithItsSlot ==
    [][\A c \in 1..Len(heap'.upvalues) :
          LET after == heap'.upvalues[c] IN
          /\ IsSome(after.location) <=> gen_get(gen', origin'[c][1]) = origin'[c][2]
          /\ (c \in cells /\ ~IsSome(heap.upvalues[c].location)) =>
                /\ ~IsSome(after.location)
                /\ instruction # OP_SET_UPVALUE => after.closed = heap.upvalues[c].closed
      ]_vars

\* The functions compiled for a method name, in the order of compilation: the
\* superclass's version is the first, the subclass's override the last.
versions(name) == {fid \in 1..Len(functions) : functions[fid].name = name}
first_version(name) == CHOOSE fid \in versions(name) : \A g \in versions(name) : fid <= g
last_version(name) == CHOOSE fid \in versions(name) : \A g \in versions(name) : g <= fid
class_name(value) == heap.classes[heap.instances[value.v].class].name
\* The frame a step has pushed, its function and its slot 0 (`this`).
entered == Running /\ Len(frames') = Len(frames) + 1
entered_function == heap'.closures[frames'[Len(frames')].closure].function
entered_this == StackArray_get(stack', frames'[Len(frames')].sp)
this == StackArray_get(stack, frames[Len(frames)].sp)

\* C4: with class B < A and m defined in both, invoking m on an instance of B
\* runs B's m and on an instance of A runs A's m, and super.m in a method of B
\* (invoked or fetched and then called) runs A's m with `this` still the B
\* instance the method was entered with.
OverrideAndSuper ==
    [][(prog.name = "inherit" /\ entered /\ functions[entered_function].name = "m") =>
          /\ entered_this.t = "Instance"
          /\ instruction = OP_INVOKE =>
                entered_function = (IF class_name(entered_this) = "B" THEN last_version("m")
                                    ELSE first_version("m"))
          /\ instruction \in {OP_SUPER_INVOKE, OP_CALL} =>
                /\ entered_function = first_version("m")
                /\ class_name(entered_this) = "B"
                /\ entered_this = this
      ]_vars

\* C4 witness: A's m is running for a B instance, entered through super from a
\* method of B, after B's own m has run for another B instance.
SuperRunsForSubInstance ==
    /\ prog.name = "inherit" /\ Running /\ Len(frames) = 3
    /\ current_function = first_version("m")
    /\ first_version("m") # last_version("m")
    /\ this.t = "Instance" /\ class_name(this) = "B"
    /\ \E i \in 1..Len(heap.instances) :
          /\ heap.classes[heap.instances[i].class].name = "B"
          /\ "tag" \in DOMAIN heap.instances[i].fields
          /\ heap.instances[i].fields["tag"] = IntegerV(2)

\* The bytes the run loop reads for the instruction at offset i of function
\* fid's chunk: the opcode and the operands its handler reads.
instruction_len(fid, i) ==
    LET fn == functions[fid]
        op == fn.chunk.code[i + 1]
    IN  CASE op = OP_CLOSURE ->
                2 + 2 * functions[fn.chunk.constants[fn.chunk.code[i + 2] + 1].v].upvalue_count
          [] op \in {OP_JUMP_IF_FALSE, OP_JUMP, OP_LOOP, OP_JUMP_IF_RANGE_END,
                     OP_INVOKE, OP_SUPER_INVOKE} -> 3
          [] op \in {OP_CONSTANT, OP_DEFINE_GLOBAL, OP_GET_GLOBAL, OP_SET_GLOBAL, OP_GET_LOCAL,
                     OP_SET_LOCAL, OP_CALL, OP_ARRAY, OP_GET_UPVALUE, OP_SET_UPVALUE, OP_CLASS,
                     OP_GET_PROP, OP_SET_PROP, OP_METHOD, OP_GET_SUPER, OP_COUNTUP} -> 2
          [] OTHER -> 1

\* The offsets at which the instructions of a chunk start, from offset i on.
RECURSIVE instruction_starts(_, _)
instruction_starts(fid, i) ==
    IF i >= Len(functions[fid].chunk.code) THEN {}
    ELSE {i} \cup instruction_starts(fid, i + instruction_len(fid, i))

JumpOps == {OP_JUMP, OP_JUMP_IF_FALSE, OP_JUMP_IF_RANGE_END, OP_LOOP}
jumps(fid) == {i \in instruction_starts(fid, 0) : functions[fid].chunk.code[i + 1] \in JumpOps}
\* The ip after the handler of the jump at offset i has read its operand and
\* added it (subtracted it, for OP_LOOP).
destination(fid, i) ==
    LET code == functions[fid].chunk.code
        operand == code[i + 2] * 256 + code[i + 3]
    IN  IF code[i + 1] = OP_LOOP THEN i + 3 - operand ELSE i + 3 + operand
code_end(fid) == Len(functions[fid].chunk.code)

Done == result \notin {"Start", "Running"}
IsPrefix(a, b) == Len(a) <= Len(b) /\ \A i \in 1..Len(a) : a[i] = b[i]

\* C7: the closure returned by make keeps n alive after make has returned
\* (the cell it reads and writes is closed while inc runs), and the k-th call
\* of the counter closure returns k: the program prints 1, 2, ..., calls and
\* ends normally.
CounterReturnsCallNumber ==
    prog.name = "counter" =>
        /\ \A i \in 1..Len(output) : output[i] = IntegerV(i)
        /\ Done => result = "End" /\ Len(output) = prog.n
        /\ (Running /\ functions[current_function].name = "inc") =>
                \A c \in cells : ~IsSome(heap.upvalues[c].location)

\* C7 witness: the counter closure has been called MaxCalls times, after make
\* returned, and the last call returned MaxCalls.
CounterCalledMaxTimes ==
    /\ prog = Program("counter", MaxCalls, 0)
    /\ result = "End"
    /\ Len(output) = MaxCalls
    /\ output[MaxCalls] = IntegerV(MaxCalls)

\* What a loop over the program's range binds x to, in order (for the nested
\* loops: what the inner body prints).
range_elements(p) ==
    CASE p.name = "for_to" -> Integers_from(p.n, p.m)
      [] p.name \in {"for_array", "for_var"} -> [i \in 1..p.n |-> IntegerV(10 * i)]
      [] p.name = "for_nested" ->
            [i \in 1..(p.n * p.m) |-> IntegerV(((i - 1) \div p.m + 1) * 10 + ((i - 1) % p.m) + 1)]

\* C8: a for-range loop runs its body once per element of the range, with x
\* bound to the elements in order (each body run shows x), zero times for
\* `a to b` with a > b, and then exits, the program ending normally.
ForRunsBodyPerElement ==
    prog.name \in ForPrograms =>
        /\ IsPrefix(output, range_elements(prog))
        /\ Done => result = "End" /\ output = range_elements(prog)

\* Operand byte j of the instruction at ip.
operand(j) == functions[current_function].chunk.code[get_current_ip + 1 + j]
operand_string(j) == functions[current_function].chunk.constants[operand(j) + 1].s
\* The frame of a call that has not returned, by its depth in frames.
callee_index == pending[Len(pending)]

\* C9: when a call completes, whatever the kind of its callee (a closure, a
\* bound method or an init by OP_RETURN; a native or a class without init
\* within OP_CALL), the stack depth is the callee's index plus one and the
\* slot at the callee's index holds the call's result.
CallLeavesOneValue ==
    [][(Running /\ result' = "Running") =>
          /\ (instruction = OP_RETURN /\ Len(frames') = Len(frames) - 1) =>
                /\ stack'.index = callee_index + 1
                /\ StackArray_get(stack', callee_index) = StackArray_get(stack, stack.index - 1)
          /\ (instruction = OP_CALL /\ Len(frames') = Len(frames)) =>
                LET index == stack.index - operand(1) - 1
                    callee == StackArray_get(stack, index)
                    value == StackArray_get(stack', index)
                IN  /\ stack'.index = index + 1
                    /\ callee.t \in {"Native", "Class"}
                    /\ callee.t = "Native" =>
                          value = native(vm, callee.s, SubSeq(stack.values, index + 2, stack.index)).v
                    /\ callee.t = "Class" =>
                          /\ value.t = "Instance"
                          /\ heap'.instances[value.v] = InstanceObject(callee.v)
      ]_vars

\* C9 witness: calls of a closure, a native, a class without init, a class
\* with init, a bound method and an invoked method have all completed.
EveryCalleeKindCompleted ==
    /\ prog.name = "calls"
    /\ result = "End"
    /\ output = << IntegerV(3), IntegerV(3), IntegerV(7), IntegerV(7) >>
    /\ Len(heap.instances) = 2
    /\ Len(heap.bound_methods) = 1
    /\ stack.index = 1

\* The arity a call of this callee checks argc against; None when it checks none.
expected_arity(callee) ==
    CASE callee.t = "Closure" -> Some(arity_of(vm, callee.v))
      [] callee.t = "BoundMethod" -> Some(arity_of(vm, heap.bound_methods[callee.v].method))
      [] callee.t = "Class" ->
            LET methods == heap.classes[callee.v].methods IN
            IF "init" \notin DOMAIN methods THEN Some(0)
            ELSE IF methods["init"].t = "Closure" THEN Some(arity_of(vm, methods["init"].v))
            ELSE None
      [] OTHER -> None
method_arity(class, name) ==
    LET methods == heap.classes[class].methods IN
    IF name \in DOMAIN methods /\ methods[name].t = "Closure"
    THEN Some(arity_of(vm, methods[name].v)) ELSE None
\* The instruction at ip is a call whose argc differs from the callee's arity.
ArityMismatch ==
    CASE instruction = OP_CALL ->
            expected_arity(StackArray_get(stack, stack.index - operand(1) - 1))
                \notin {None, Some(operand(1))}
      [] instruction = OP_INVOKE ->
            LET receiver == StackArray_get(stack, stack.index - operand(2) - 1) IN
            /\ receiver.t = "Instance"
            /\ operand_string(1) \notin DOMAIN heap.instances[receiver.v].fields
            /\ method_arity(heap.instances[receiver.v].class, operand_string(1))
                    \notin {None, Some(operand(2))}
      [] instruction = OP_SUPER_INVOKE ->
            /\ last(vm).t = "Class"
            /\ method_arity(last(vm).v, operand_string(1)) \notin {None, Some(operand(2))}
      [] OTHER -> FALSE

\* C10: a call with an arity mismatch, on any call path, makes run() return
\* RuntimeError, and pushes no call frame.
ArityMismatchIsRuntimeError ==
    [][ArityMismatch => (result' = "RuntimeError" /\ Len(frames') = Len(frames))]_vars

\* C11: the value stack never holds more than STACK_LEN values and the frame
\* stack never more than FRAME_MAX frames, and a run that reaches a capacity
\* (unbounded recursion) ends with RuntimeError.
OverflowIsRuntimeError ==
    /\ stack.index <= STACK_LEN
    /\ Len(frames) <= FRAME_MAX
    /\ (prog.name = "recurse" /\ Done) => result = "RuntimeError"

\* The two operands of the binary instruction at ip (b on top).
operand_a == StackArray_get(stack, stack.index - 2)
operand_b == StackArray_get(stack, stack.index - 1)

\* C12: OP_DIVIDE and OP_REM with two Integer operands and a zero right
\* operand make run() return RuntimeError.
IntegerDivisionByZeroIsRuntimeError ==
    [][(/\ instruction \in {OP_DIVIDE, OP_REM}
        /\ operand_a.t = "Integer"
        /\ operand_b = IntegerV(0)) => result' = "RuntimeError"]_vars

\* The ip of the top frame has moved on by n bytes and nothing was printed.
Continues(n) ==
    /\ result' = "Running"
    /\ frames' = [frames EXCEPT ![Len(frames)].ip = @ + n]
    /\ output' = output

\* C13: OP_INDEX_CALL with an Array and an Integer index outside the array
\* (negative or >= its length), and OP_GET_PROP on an instance that has
\* neither a field nor a class method of the name, replace their operands by
\* null and the run continues with the next instruction.
MissingElementOrPropertyIsNull ==
    [][/\ (/\ instruction = OP_INDEX_CALL
            /\ operand_a.t = "Array" /\ operand_b.t = "Integer"
            /\ operand_b.v \notin 0..(Len(heap.arrays[operand_a.v]) - 1)) =>
                /\ Continues(1)
                /\ stack'.index = stack.index - 1
                /\ StackArray_get(stack', stack.index - 2) = NullV
       /\ (/\ instruction = OP_GET_PROP
            /\ operand_b.t = "Instance"
            /\ operand_string(1) \notin DOMAIN heap.instances[operand_b.v].fields
            /\ operand_string(1) \notin
                    DOMAIN heap.classes[heap.instances[operand_b.v].class].methods) =>
                /\ Continues(2)
                /\ stack'.index = stack.index
                /\ StackArray_get(stack', stack.index - 1) = NullV
      ]_vars

\* C13 witness: a read below the array, a read of a property the instance
\* does not have, and the run went on to print what came after.
NullForMissingPrinted ==
    /\ prog = Program("missing", -1, 0)
    /\ result = "End"
    /\ output = << NullV, NullV, IntegerV(1), IntegerV(7) >>

\* C14: OP_GET_SUPER and OP_SUPER_INVOKE with a name that is not a method of
\* the superclass (the class on top of the stack) make run() return
\* RuntimeError.
MissingSuperMethodIsRuntimeError ==
    [][(/\ instruction \in {OP_GET_SUPER, OP_SUPER_INVOKE}
        /\ operand_b.t = "Class"
        /\ operand_string(1) \notin DOMAIN heap.classes[operand_b.v].methods) =>
            result' = "RuntimeError"]_vars

compilation_failed == compiled_programs[prog].err # ""

\* C15: the process exits with 0 when the script ends normally, with 8 when
\* its compilation failed and with 101 when run() returned a RuntimeError.
ExitCodeTellsOutcome ==
    Done =>
        /\ compilation_failed => exit_codes = {8}
        /\ result = "RuntimeError" => exit_codes = {101}
        /\ result \in {"Ok", "End"} => exit_codes = {0}

\* This step ends the run without an error.
EndsNormally == Running /\ result' \in {"Ok", "End"}
in_script == Len(frames) = 1 /\ functions[current_function].name = "__main__"
\* The instruction at ip is the OP_RETURN of a return statement.
at_return_statement ==
    /\ instruction = OP_RETURN
    /\ \E i \in 1..Len(marks[current_function]) :
          /\ marks[current_function][i].kind = "Return"
          /\ marks[current_function][i].end = get_current_ip + 1

NestedFunctionIsLocal ==
    prog.name = "nested_fun" =>
        /\ "g" \notin DOMAIN globals
        /\ output = << >>
        /\ Done => /\ result = "RuntimeError"
                   /\ prog.n = 1 => "outer" \in DOMAIN globals

\* What the reads of the program show when every name denotes the innermost
\* declaration in scope.
resolved(p) ==
    CASE p.name = "resolve" /\ p.n = 0 ->
            [i \in 1..8 |-> IntegerV(<< 4, 3, 2, 5, 8, 3, 1, 7 >>[i])]
      [] p.name = "resolve" /\ p.n = 1 ->
            [i \in 1..5 |-> IntegerV(<< 3, 2, 1, 6, 3 >>[i])]
      [] OTHER -> << IntegerV(2) >>

\* C18: every read and assignment of a name reaches the innermost enclosing
\* declaration: a local of the current function first, then a local of an
\* enclosing function as an upvalue, then the global; the slot operand of an
\* OP_GET_LOCAL / OP_SET_LOCAL is the offset from the frame base at which
\* the local lives on the stack (a live slot).
NamesResolveInnermostFirst ==
    prog.name \in {"resolve", "resolve_after_if"} =>
        /\ IsPrefix(output, resolved(prog))
        /\ Done => result = "End" /\ output = resolved(prog)
        /\ instruction \in {OP_GET_LOCAL, OP_SET_LOCAL} =>
                frames[Len(frames)].sp + operand(1) < stack.index

\* What the reads of a print in program "shadow" show when the inner
\* declaration shadows the outer one until its scope ends.
shadowed(p) ==
    CASE p.n = 0 -> << IntegerV(2), IntegerV(1) >>
      [] p.n = 1 -> << IntegerV(1) >>
      [] p.n = 2 -> << IntegerV(1), IntegerV(5) >>
      [] OTHER -> << >>

\* C19: declaring a local a second time at the same scope depth makes the
\* compilation fail (also after an inner scope between the two declarations
\* has ended), and nothing of the program runs; declaring the name of a local
\* of an outer scope depth, a parameter re-declared in the body of its
\* function included, compiles: the reads inside the inner scope give the inner
\* local, the reads after it the outer one again.
DuplicateLocalRefusedShadowingAllowed ==
    /\ (prog.name = "shadow" /\ prog.n = 3) \/ (prog.name = "compile_fail" /\ prog.n = 0) =>
            /\ compilation_failed
            /\ output = << >>
            /\ result \in {"Start", "Panic"}
    /\ prog.name = "shadow" /\ prog.n < 3 =>
            /\ ~compilation_failed
            /\ IsPrefix(output, shadowed(prog))
            /\ Done => result = "End" /\ output = shadowed(prog)

\* The parameter a of f has been re-declared in the body of f and the print
\* in the body has shown the inner a.
ParameterShadowedInBody ==
    prog.name = "shadow" /\ prog.n = 1 /\ Done /\ output = << IntegerV(1) >>

\* What the six comparisons of program "compare" give for the numbers a and
\* halves / 2.
numeric(a, halves) ==
    << BooleanV(2 * a = halves), BooleanV(2 * a < halves), BooleanV(2 * a > halves),
       BooleanV(halves = 2 * a), BooleanV(halves < 2 * a), BooleanV(halves > 2 * a) >>

\* C20: ==, < and > between an Integer and a Float, in either order, give
\* the comparison of the two numbers.
MixedComparisonIsNumeric ==
    prog.name = "compare" =>
        /\ IsPrefix(output, numeric(prog.n, prog.m))
        /\ Done => result = "End" /\ output = numeric(prog.n, prog.m)

\* The instructions of function fid that read or write through an upvalue.
upvalue_accesses(fid) ==
    {i \in instruction_starts(fid, 0) :
        functions[fid].chunk.code[i + 1] \in {OP_GET_UPVALUE, OP_SET_UPVALUE}}

\* C21: every closure made by OP_CLOSURE holds as many cells as the
\* upvalue_count of its function, and the operand of every OP_GET_UPVALUE and
\* OP_SET_UPVALUE of a chunk is below the upvalue_count of the chunk's
\* function.
ClosureHoldsUpvalueCountCells ==
    /\ \A cl \in 1..Len(heap.closures) :
          Len(heap.closures[cl].upvalues) = functions[heap.closures[cl].function].upvalue_count
    /\ \A fid \in 1..Len(functions) : \A i \in upvalue_accesses(fid) :
          functions[fid].chunk.code[i + 2] < functions[fid].upvalue_count

\* A closure with two cells has been made and has read through its second
\* cell.
ClosureWithTwoCellsRead ==
    /\ instruction = OP_GET_UPVALUE
    /\ operand(1) = 1
    /\ Len(heap.closures[frames[Len(frames)].closure].upvalues) = 2

\* The cells linked from the head of an open-upvalue list, in list order.
RECURSIVE list_from(_, _)
list_from(upvalues, current_upvalue) ==
    IF ~IsSome(current_upvalue) THEN << >>
    ELSE << current_upvalue[1] >> \o list_from(upvalues, upvalues[current_upvalue[1]].next)

\* The slot from which the instruction at ip closes: the top slot for
\* OP_CLOSE_UPVALUE, the base of the returning frame for OP_RETURN.
from_slot == IF instruction = OP_RETURN THEN frames[Len(frames)].sp ELSE stack.index - 1
in_list(c, upvalues, head) == \E j \in DOMAIN list_from(upvalues, head) : list_from(upvalues, head)[j] = c

\* C22: OP_CLOSE_UPVALUE and OP_RETURN close the open cells whose slot is at
\* or above the slot they close from, and no other: an open cell of a lower
\* slot is still open, with its slot, and still in the open-upvalue list
\* after the instruction.
ClosesOnlyFromSlot ==
    [][(instruction \in {OP_CLOSE_UPVALUE, OP_RETURN} /\ result' = "Running") =>
          \A c \in cells :
              LET before == heap.upvalues[c] IN
              IsSome(before.location) =>
                  IF before.location[1] >= from_slot THEN ~IsSome(heap'.upvalues[c].location)
                  ELSE /\ heap'.upvalues[c].location = before.location
                       /\ in_list(c, heap'.upvalues, open_upvalue')
      ]_vars

\* C23: a captured local that is still in scope is one variable: after each
\* write, made by the owning function or through a closure, the read of the
\* owning function and the read through a closure both give the value
\* written last (program "one_variable" prints 1, 1, 2, 2 for the four
\* combinations of writers).
CapturedLocalIsOneVariable ==
    prog.name = "one_variable" =>
        LET latest == << IntegerV(1), IntegerV(1), IntegerV(2), IntegerV(2) >> IN
        /\ IsPrefix(output, latest)
        /\ Done => result = "End" /\ output = latest

open_list == list_from(heap.upvalues, open_upvalue)
\* The cells of the open-upvalue list have a slot each, in strictly
\* descending order from the head.
OpenListDescends ==
    \A j, k \in DOMAIN open_list :
        /\ IsSome(heap.upvalues[open_list[j]].location)
        /\ j < k => heap.upvalues[open_list[j]].location[1] > heap.upvalues[open_list[k]].location[1]

\* C24: in every state the open-upvalue list is sorted by slot, strictly
\* descending from the head, and every cell reachable from the head is an
\* open cell: it has a slot and holds no closed value.
OpenListSortedAndOpen ==
    /\ OpenListDescends
    /\ \A j \in DOMAIN open_list : ~IsSome(heap.upvalues[open_list[j]].closed)

\* C25: no two cells that have a slot have the same slot, and OP_CLOSURE
\* makes a new cell only for a slot that no cell had before the instruction
\* (a closure that captures a slot which has a cell gets that cell).
OneOpenCellPerSlot ==
    [][/\ \A c1, c2 \in 1..Len(heap'.upvalues) :
            (/\ IsSome(heap'.upvalues[c1].location)
             /\ heap'.upvalues[c1].location = heap'.upvalues[c2].location) => c1 = c2
       /\ \A c \in (Len(heap.upvalues) + 1)..Len(heap'.upvalues) :
            /\ IsSome(heap'.upvalues[c].location)
            /\ ~\E d \in cells : heap.upvalues[d].location = heap'.upvalues[c].location
      ]_vars

\* Two closures hold the same cell, which has its slot: the second capture
\* of the slot found the cell of the first.
TwoClosuresHoldOneOpenCell ==
    \E c \in cells : \E cl1, cl2 \in 1..Len(heap.closures) :
        /\ cl1 # cl2
        /\ IsSome(heap.upvalues[c].location)
        /\ \E j \in DOMAIN heap.closures[cl1].upvalues : heap.closures[cl1].upvalues[j] = c
        /\ \E j \in DOMAIN heap.closures[cl2].upvalues : heap.closures[cl2].upvalues[j] = c

\* C26: in every state every cell is either open (a slot, no closed value) or
\* closed (a closed value, no slot), never both and never neither.
CellIsOpenOrClosed ==
    \A c \in cells : IsSome(heap.upvalues[c].location) # IsSome(heap.upvalues[c].closed)

\* The closure that the OP_CLOSURE at ip has pushed.
made_closure == heap'.closures[Len(heap'.closures)]

\* OP_CLOSURE gives the new closure, for each descriptor with is_local = 0,
\* the cell that the running closure holds at the descriptor's index.
EnclosingCellReused ==
    [][(instruction = OP_CLOSURE /\ result' = "Running") =>
          \A j \in DOMAIN made_closure.upvalues :
              operand(2 * j) = 0 =>
                  made_closure.upvalues[j] =
                      heap.closures[frames[Len(frames)].closure].upvalues[operand(2 * j + 1) + 1]
      ]_vars

\* C27: a function nested two levels deep that captures a variable of the
\* outer function gets the cell of the enclosing closure, and a write through
\* one of the two closures is read through the other: program
\* "nested_capture" prints 1, whether the inner or the enclosing closure
\* writes and whether the outer function is running or has returned.
InnerAndEnclosingShareCell ==
    /\ EnclosingCellReused
    /\ [](prog.name = "nested_capture" =>
            /\ IsPrefix(output, << IntegerV(1) >>)
            /\ Done => result = "End" /\ output = << IntegerV(1) >>)

\* The machine after the operands of the OP_INVOKE at ip are read.
invoke_operands == read_byte(read_string(fetched).m)
invoke_name == read_string(fetched).v
\* The stack index of the receiver of the OP_INVOKE at ip.
receiver_index == stack.index - (invoke_operands.v + 1)

RECURSIVE push_all(_, _, _)
push_all(m, values, i) == IF i > Len(values) THEN m ELSE push_all(push(m, values[i]), values, i + 1)

\* What OP_INVOKE makes of the state, and what OP_GET_PROP on the receiver
\* followed by OP_CALL makes of it (the arguments pushed after the property
\* is fetched).
by_invoke == invoke(invoke_operands.m, invoke_name, invoke_operands.v)
by_get_prop_and_call ==
    LET m == invoke_operands.m
        arguments == SubSeq(m.stack.values, receiver_index + 2, m.stack.index)
        fetched_prop == get_prop([m EXCEPT !.stack.index = receiver_index + 1], invoke_name)
        m1 == push_all(fetched_prop, arguments, 1)
    IN  call_value(m1, stack_get(m1, receiver_index), invoke_operands.v)

\* The outcome of a call: the error, or the frames and the live stack.
outcome(m) ==
    IF m.result # "Running" THEN << m.result >>
    ELSE << m.result, m.frames, SubSeq(m.stack.values, 1, m.stack.index) >>

\* C28: for an instance as the receiver, whether the name is a field, a method
\* of the class or neither, and for every number of arguments, OP_INVOKE ends
\* in the outcome of OP_GET_PROP followed by OP_CALL.
InvokeIsGetPropThenCall ==
    (instruction = OP_INVOKE /\ stack_get(vm, receiver_index).t = "Instance") =>
        outcome(by_invoke) = outcome(by_get_prop_and_call)

\* The fields of the instance v, and the methods of its class.
fields_of(v) == heap.instances[v.v].fields
methods_of(v) == heap.classes[heap.instances[v.v].class].methods
get_prop_name == read_string(fetched).v

GetPropPushesField ==
    (instruction = OP_GET_PROP /\ last(vm).t = "Instance" /\ get_prop_name \in DOMAIN fields_of(last(vm))) =>
        /\ result' = "Running"
        /\ stack'.index = stack.index
        /\ StackArray_get(stack', stack.index - 1) = fields_of(last(vm))[get_prop_name]
        /\ heap'.bound_methods = heap.bound_methods

InvokeCallsField ==
    LET receiver == stack_get(vm, receiver_index) IN
    (instruction = OP_INVOKE /\ receiver.t = "Instance" /\ invoke_name \in DOMAIN fields_of(receiver)) =>
        LET field == fields_of(receiver)[invoke_name] IN
        /\ field.t \notin {"Closure", "Class", "BoundMethod"} => result' = "RuntimeError"
        /\ result' = "Running" =>
              /\ heap'.bound_methods = heap.bound_methods
              /\ field.t = "Closure" =>
                    /\ StackArray_get(stack', receiver_index) = field
                    /\ Len(frames') = Len(frames) + 1
                    /\ frames'[Len(frames')].closure = field.v
                    /\ frames'[Len(frames')].sp = receiver_index
              \* the call of a bound method puts its own receiver in the slot
              /\ field.t = "BoundMethod" =>
                    /\ StackArray_get(stack', receiver_index) = heap.bound_methods[field.v].reciever
                    /\ Len(frames') = Len(frames) + 1
                    /\ frames'[Len(frames')].closure = heap.bound_methods[field.v].method
                    /\ frames'[Len(frames')].sp = receiver_index

\* C29: a field shadows a method of the same name: OP_GET_PROP pushes the
\* field's value and makes no BoundMethod, and OP_INVOKE puts the field's
\* value in the receiver's slot and calls it.
FieldShadowsMethod == [][GetPropPushesField /\ InvokeCallsField]_vars

\* A frame of the function held by a field that has the name of a method of
\* the receiver's class, entered by OP_INVOKE, and the same field fetched by
\* OP_GET_PROP.
shadowing(v) == v.t = "Instance" /\ "m" \in DOMAIN fields_of(v) /\ "m" \in DOMAIN methods_of(v)
ShadowingFieldUsed ==
    /\ prog.name = "field_shadows"
    /\ "p" \in DOMAIN globals
    /\ shadowing(globals["o"])
    /\ globals["p"] = fields_of(globals["o"])["m"]
    /\ output = << IntegerV(7) >>
    /\ Len(frames) = 2
    /\ StackArray_get(stack, frames[2].sp) = fields_of(globals["o"])["m"]
    /\ frames[2].closure = fields_of(globals["o"])["m"].v

\* The method table of the class the global `name` holds.
methods_of_class(h, g, name) == h.classes[g[name].v].methods
\* The names B's body defines in the program "inherits".
body_of_B == (IF prog.n = 1 THEN {"a"} ELSE {}) \cup (IF prog.m = 1 THEN {"b"} ELSE {}) \cup {"c"}

\* From the definition of the global B on, A's table does not change.
SuperclassTableKept ==
    [][(prog.name = "inherits" /\ "B" \in DOMAIN globals) =>
          methods_of_class(heap', globals', "A") = methods_of_class(heap, globals, "A")]_vars

\* Once `class B < A { ... }` is executed (the global o is defined after it),
\* B's table holds A's closure under every name of A that the body of B does
\* not define.
InheritedMethodsAreSuperclassClosures ==
    (prog.name = "inherits" /\ "o" \in DOMAIN globals) =>
        LET A == methods_of_class(heap, globals, "A")
            B == methods_of_class(heap, globals, "B")
        IN  /\ DOMAIN A = {"a", "b"}
            /\ A["a"] # A["b"]
            /\ \A name \in DOMAIN A \ body_of_B : name \in DOMAIN B /\ B[name] = A[name]
            /\ \A name \in DOMAIN A \cap body_of_B : B[name] # A[name]

\* C30: after `class B < A { ... }`, B's method table maps every method name
\* of A that B's body does not define to A's closure for that name, and A's
\* method table is what it was before the definition of B.
InheritCopiesIntoSubclassOnly == SuperclassTableKept /\ []InheritedMethodsAreSuperclassClosures

\* B defines b and c, inherits a, and the inherited a has run on an instance
\* of B.
InheritedMethodCalled ==
    /\ prog.name = "inherits" /\ prog.n = 0 /\ prog.m = 1
    /\ "o" \in DOMAIN globals
    /\ DOMAIN methods_of_class(heap, globals, "B") = {"a", "b", "c"}
    /\ methods_of_class(heap, globals, "B")["a"] = methods_of_class(heap, globals, "A")["a"]
    /\ output = << IntegerV(1), IntegerV(12) >>

\* The stack depth above the base of the running frame.
depth_in_frame == stack.index - frames[Len(frames)].sp
\* The OP_PRINT of the statement `print value;`, its operand on the stack.
printing(value) == result = "Running" /\ instruction = OP_PRINT /\ last(vm) = IntegerV(value)
\* The locals of the frame at the declaration in the program "class_shape":
\* slot 0, and `before` in a block or a function.
locals_before == IF prog.m = 0 THEN 1 ELSE 2
\* A class or a variable declared in a scope is a local; at the top level it
\* is a global.
class_local == IF prog.m = 0 THEN 0 ELSE 1

\* C31: a class declaration leaves the stack as deep as it found it, one
\* deeper for the class local in a scope, whether or not it has a superclass,
\* with zero, one or two methods, at the top level, in a block or in a
\* function; the local super is gone, so the next local takes the next slot.
ClassDeclarationBalanced ==
    prog.name = "class_shape" =>
        /\ printing(100) => depth_in_frame = locals_before + 1
        /\ printing(101) => depth_in_frame = locals_before + class_local + 1
        /\ printing(6) => depth_in_frame = locals_before + 2 * class_local + 1
        /\ Done => /\ result = "End"
                   /\ output = << IntegerV(100), IntegerV(101), IntegerV(6) >>
                                \o (IF prog.m = 0 THEN << >> ELSE << IntegerV(5) >>)

\* The statement after a class with a superclass and two methods, one of
\* them capturing super, declared in a function.
AfterInheritingLocalClass ==
    prog.name = "class_shape" /\ prog.n = 5 /\ prog.m = 2 /\ printing(101) /\ Len(frames) = 2

\* The values of LeftOperands; false and null are the falsy ones.
left_values == << BooleanV(FALSE), NullV, BooleanV(TRUE), IntegerV(0) >>
left_decides == IF LogicalOpes[prog.n] = "and" THEN prog.m \in {1, 2} ELSE prog.m \in {3, 4}
logical_value == IF left_decides THEN left_values[prog.m] ELSE IntegerV(9)
right_runs == IF left_decides THEN 0 ELSE 1

\* C32: `a and b` is a when a is false or null and b otherwise, `a or b` is a
\* when a is neither false nor null and b otherwise; b's code runs only when
\* b is the result, and the expression leaves one value on the stack.
LogicalShortCircuits ==
    prog.name = "logic" =>
        /\ (result = "Running" /\ instruction = OP_PRINT /\ output = << >>) =>
              /\ stack.index = 2
              /\ last(vm) = logical_value
              /\ globals["n"] = IntegerV(right_runs)
        /\ (Len(frames) = 2) => ~left_decides
        /\ Done => result = "End" /\ output = << logical_value, IntegerV(right_runs) >>

\* `null and b()` is about to be printed and b has not run.
NullAndSkipsRight ==
    /\ prog.name = "logic" /\ LogicalOpes[prog.n] = "and" /\ prog.m = 2
    /\ instruction = OP_PRINT /\ output = << >> /\ last(vm) = NullV /\ globals["n"] = IntegerV(0)

\* The offsets in function fid of the OP_GET_LOCAL instructions of slot 0.
slot0_reads(fid) ==
    {i \in instruction_starts(fid, 0) :
        functions[fid].chunk.code[i + 1] = OP_GET_LOCAL /\ functions[fid].chunk.code[i + 2] = 0}
slot0_name(function_type) == Compiler_new("", function_type, 0).locals[1].name

\* C33: slot 0 is named this for methods and initializers only, and is named
\* with the empty string for the script and for ordinary functions; in a
\* program without a class, the this that super.x stands for is neither read
\* from slot 0 of a function nor captured from it.
ThisIsSlot0OfMethodsOnly ==
    /\ slot0_name("Method") = "this" /\ slot0_name("Init") = "this"
    /\ slot0_name("Function") = "" /\ slot0_name("Script") = ""
    /\ (prog.name = "super_outside" /\ result \notin {"Start", "Panic"}) =>
          \A fid \in 1..Len(functions) : slot0_reads(fid) = {} /\ functions[fid].upvalue_count = 0

\* The value an OP_CALL or an OP_INVOKE at ip is about to call, and its slot:
\* the callee under the arguments, or the field of the receiver.
call_slot == IF instruction = OP_CALL THEN stack.index - (read_byte(fetched).v + 1) ELSE receiver_index
called ==
    IF instruction = OP_CALL THEN stack_get(vm, call_slot)
    ELSE LET receiver == stack_get(vm, call_slot) IN
         IF receiver.t = "Instance" /\ invoke_name \in DOMAIN fields_of(receiver)
         THEN fields_of(receiver)[invoke_name] ELSE NullV

\* Calling a bound method puts its receiver in the callee's slot and pushes
\* a frame of its closure on that slot.
BoundMethodCalledOnReceiver ==
    (instruction \in {OP_CALL, OP_INVOKE} /\ called.t = "BoundMethod" /\ result' = "Running") =>
        LET bound == heap.bound_methods[called.v] IN
        /\ StackArray_get(stack', call_slot) = bound.reciever
        /\ Len(frames') = Len(frames) + 1
        /\ frames'[Len(frames')].closure = bound.method
        /\ frames'[Len(frames')].sp = call_slot

\* A bound method is made of the instance the property is read from (by
\* OP_GET_SUPER: the instance under the superclass), takes its place on the
\* stack, and keeps its receiver and its closure.
read_from == IF instruction = OP_GET_SUPER THEN stack.index - 2 ELSE stack.index - 1
BoundMethodKeepsReceiver ==
    /\ \A b \in 1..Len(heap.bound_methods) : heap'.bound_methods[b] = heap.bound_methods[b]
    /\ \A b \in (Len(heap.bound_methods) + 1)..Len(heap'.bound_methods) :
          /\ instruction \in {OP_GET_PROP, OP_GET_SUPER}
          /\ heap'.bound_methods[b].reciever = stack_get(vm, read_from)
          /\ StackArray_get(stack', read_from) = BoundMethodV(b)

\* C34: a method read by property access and called later runs with this
\* bound to the instance it was read from, wherever the bound method is
\* stored and whatever is assigned since to the variable that held the
\* instance.
BoundMethodRunsOnItsInstance ==
    /\ [][BoundMethodCalledOnReceiver /\ BoundMethodKeepsReceiver]_vars
    /\ [](prog.name = "bound" =>
            /\ IsPrefix(output, << IntegerV(11) >>)
            /\ Done => result = "End" /\ output = << IntegerV(11) >>)

\* who runs on the first instance, called through m after o1 was assigned
\* the second instance.
BoundMethodCalledAfterReassignment ==
    /\ prog.name = "bound" /\ prog.n = 2 /\ Len(frames) = 2
    /\ stack_get(vm, frames[2].sp) = InstanceV(1)
    /\ globals["o1"] = InstanceV(2)
    /\ globals["m"].t = "BoundMethod"

\* The stack slots in use, the one at `except` left out.
slots_kept(except) ==
    \A i \in 0..(stack.index - 1) : i # except => StackArray_get(stack', i) = StackArray_get(stack, i)
\* The cell OP_SET_UPVALUE at ip writes.
set_cell == heap.closures[frames[Len(frames)].closure].upvalues[operand(1) + 1]

\* C35: OP_SET_LOCAL, OP_SET_UPVALUE and OP_SET_GLOBAL leave the depth of the
\* stack and the value on top as they are, and change nothing but the
\* variable they assign: no other slot, global, cell or field.
SetLeavesValueAndOtherVariables ==
    [][(instruction \in {OP_SET_LOCAL, OP_SET_UPVALUE, OP_SET_GLOBAL} /\ result' = "Running") =>
          /\ stack'.index = stack.index
          /\ StackArray_get(stack', stack.index - 1) = last(vm)
          /\ heap'.instances = heap.instances /\ heap'.classes = heap.classes
          /\ open_upvalue' = open_upvalue
          /\ CASE instruction = OP_SET_LOCAL ->
                    /\ slots_kept(frames[Len(frames)].sp + operand(1))
                    /\ globals' = globals /\ heap'.upvalues = heap.upvalues
               [] instruction = OP_SET_GLOBAL ->
                    /\ slots_kept(-1)
                    /\ heap'.upvalues = heap.upvalues
                    /\ DOMAIN globals' = DOMAIN globals \cup {operand_string(1)}
                    /\ \A key \in DOMAIN globals : key # operand_string(1) => globals'[key] = globals[key]
               [] instruction = OP_SET_UPVALUE ->
                    /\ slots_kept(-1)
                    /\ globals' = globals
                    /\ Len(heap'.upvalues) = Len(heap.upvalues)
                    /\ \A c \in cells : c # set_cell => heap'.upvalues[c] = heap.upvalues[c]]_vars

\* In b of the program "logic", n = n + 1 has stored 1 and the 1 is still on
\* the stack for the OP_POP of the statement.
AssignedValueStaysOnStack ==
    /\ prog.name = "logic" /\ Len(frames) = 2 /\ instruction = OP_POP
    /\ last(vm) = IntegerV(1) /\ globals["n"] = IntegerV(1)

\* The function names of a program are identifiers of its text, which begin
\* with a letter: the script is the one function named __main__, and it runs
\* in the bottom frame only.
ScriptIsBottomFrameOnly ==
    /\ \A fid \in 1..Len(functions) : functions[fid].name = "__main__" <=> fid = Len(functions)
    /\ \A j \in 1..Len(frames) : function_of(vm, frames[j].closure).name = "__main__" <=> j = 1

\* OP_RETURN in the bottom frame ends the run with Ok; in any other frame it
\* pops that frame alone, and the caller goes on with the returned value on
\* the callee's slot.
ReturnPopsOneFrame ==
    (instruction = OP_RETURN /\ result' \in {"Ok", "Running"}) =>
        /\ result' = "Ok" <=> Len(frames) = 1
        /\ Len(frames) > 1 =>
              /\ frames' = SubSeq(frames, 1, Len(frames) - 1)
              /\ stack'.index = frames[Len(frames)].sp + 1
              /\ StackArray_get(stack', frames[Len(frames)].sp) = last(vm)

CallingClassGivesInstance ==
    prog.name = "init_returns" =>
        /\ "o" \in DOMAIN globals =>
              /\ globals["o"] = InstanceV(1)
              /\ fields_of(globals["o"]) = Table_insert(Table_new, "v", IntegerV(1))
        /\ Done => result = "End" /\ output = << IntegerV(1) >>

\* C38: the bases of the call frames increase strictly from the bottom frame
\* to the top one, each is below the depth of the stack, and the stack is
\* never shallower than the base of the running frame plus one.
FrameBasesIncreaseBelowStackTop ==
    result = "Running" =>
        /\ \A j \in 1..(Len(frames) - 1) : frames[j].sp < frames[j + 1].sp
        /\ \A j \in 1..Len(frames) : frames[j].sp < stack.index
        /\ stack.index >= frames[Len(frames)].sp + 1

====
